---- MODULE Spec2Model ----
(***************************************************************************)
(* Model of the preprocessing pipeline of RenAIssanceOCR:                  *)
(*   backend/preprocessing/pipeline.py   PipelineExecutor, validator       *)
(*   backend/preprocessing/progress.py   ProgressCallback, Aggregator      *)
(*   backend/preprocessing/operations.py registry and operations           *)
(*                                                                         *)
(* Representation.                                                         *)
(*  - A Python value that may be absent or of the wrong type is a record   *)
(*    with a tag field (kind / op_kind / t) so that every comparison in    *)
(*    the model is between values of one shape.                            *)
(*  - An image is its shape and the sequence `hist` of the operations      *)
(*    that made a new array of the caller's pixels.  Operations are        *)
(*    deterministic, so two images are equal iff these agree.              *)
(*  - A within-step progress value p is kept in hundredths (0.1 -> 10).    *)
(*    An overall percentage is a binary64: the one nearest to the         *)
(*    fraction n/d (d = total_steps), moved by `ulp` binary64 values.      *)
(*  - time.time() is a logical clock `now` advanced by every executor      *)
(*    step.                                                                *)
(***************************************************************************)
EXTENDS Integers, Sequences, FiniteSets, TLC

\* Longest step list of a request.
MaxSteps == 3

\* Longest step list of a request over the whole registry.
MaxRegistrySteps == 2

\* Largest step_index and total_steps a ProgressCallback is constructed with,
\* and the number of reports made through one callback.
MaxIndex == 3
MaxTotal == 4
MaxReports == 2

\* Number of pixels whose Sauvola threshold is computed.
MaxPixels == 2

\* Longest step list given to an executor that is used twice.
MaxReuseSteps == 2

\* Latest progress event at which the caller's on_progress raises.
MaxRaiseAt == 4

\* Concurrent OCR requests, and the seconds the clock of the service runs.
MaxRequests == 2
MaxClock == 13

\* Largest magnitude of a size parameter (strength, blockSize, twice the radius).
MaxParam == 20

VARIABLES
    steps,              \* execute(..., steps, ...): the caller's step list
    image,              \* execute(image, ...): the caller's image
    continue_on_error,  \* PipelineExecutor.continue_on_error
    preview_mode,       \* execute(..., preview_mode)
    pc,                 \* position of execute: idle, loop, op, done, raised
    active_steps,       \* execute: active_steps
    i,                  \* execute: loop index
    current_image,      \* execute: current_image
    errors,             \* execute: errors
    op_run,             \* the running operation: its trace and parameters
    j,                  \* number of progress events the running operation has emitted
    agg,                \* PipelineExecutor.aggregator
    result,             \* the PipelineResult returned by execute
    reported,           \* overall percentages delivered by this invocation, in order
    calls,              \* the calls op_func(image, params, progress) made so far
    vres,               \* what validate_pipeline_config(steps) returned
    now,                \* logical clock standing for time.time()
    fn,                 \* the object or call a function of the package is studied on
    pair                \* two invocations of run_pipeline in flight together

vars == <<steps, image, continue_on_error, preview_mode, pc, active_steps, i,
          current_image, errors, op_run, j, agg, result, reported, calls, vres,
          now, fn, pair>>

\* The state of one invocation of PipelineExecutor.execute.
execvars == <<steps, image, continue_on_error, preview_mode, pc, active_steps, i,
              current_image, errors, op_run, j, agg, result, reported, calls,
              vres, now>>

aux == <<fn, pair>>

-----------------------------------------------------------------------------
(* Values *)

\* operations.py: OP_REGISTRY keys
OP_REGISTRY == {"normalize", "grayscale", "deskew", "denoise", "contrast",
                "sharpen", "threshold"}

\* The "strength" entry of a params dict: absent, an int, a string that is no
\* number ('high'), the digits of an int ('5'), float('nan'), or float('inf')
\* and float('-inf') (v the sign).
NoStrength == [t |-> "absent", v |-> 0]
IntStrength(n) == [t |-> "int", v |-> n]
StrStrength == [t |-> "str", v |-> 0]
DigitsStrength(n) == [t |-> "digits", v |-> n]
NaNStrength == [t |-> "nan", v |-> 0]
InfStrength(sign) == [t |-> "inf", v |-> sign]

\* A params value: the key is absent, None, a list, or a dict with optional
\* "method", "strength" and "maxAngle" entries.
PAbsent == [kind |-> "absent", method |-> "absent", strength |-> NoStrength,
            maxAngle |-> NoStrength]
PNone == [kind |-> "none", method |-> "absent", strength |-> NoStrength,
          maxAngle |-> NoStrength]
PList == [kind |-> "list", method |-> "absent", strength |-> NoStrength,
          maxAngle |-> NoStrength]
PDict(m, s) == [kind |-> "dict", method |-> m, strength |-> s,
                maxAngle |-> NoStrength]
EmptyDict == PDict("absent", NoStrength)
\* {"maxAngle": a}, a an int of degrees
PMaxAngle(a) == [EmptyDict EXCEPT !.maxAngle = IntStrength(a)]

\* A step-list element: a mapping, or something that is not a mapping.
StepDict(ok, o, p, e) ==
    [kind |-> "dict", op_kind |-> ok, op |-> o, params |-> p, enabled |-> e]
NonDict ==
    [kind |-> "nondict", op_kind |-> "absent", op |-> "", params |-> PAbsent,
     enabled |-> "absent"]

\* The step-list elements requests are built from.
StepPool ==
    { StepDict("str", "normalize", EmptyDict, "true"),
      StepDict("str", "normalize", PDict("absent", StrStrength), "absent"),
      StepDict("str", "grayscale", PAbsent, "absent"),
      StepDict("str", "grayscale", PNone, "true"),
      StepDict("str", "denoise", PDict("nlm", IntStrength(20)), "true"),
      StepDict("str", "bogus", EmptyDict, "true"),
      StepDict("list", "", EmptyDict, "true"),
      StepDict("str", "bogus", EmptyDict, "false"),
      StepDict("absent", "", PList, "true"),
      NonDict }

SeqsUpTo(S, n) == UNION { [1..k -> S] : k \in 0..n }

\* The caller's `steps` argument: a list, or a value that is no list (None).
StepInputs ==
    { [kind |-> "list", items |-> s] : s \in SeqsUpTo(StepPool, MaxSteps) }
        \cup { [kind |-> "none", items |-> <<>>] }

\* Whether the pixels of an image are constant (max == min in every channel):
\* they are not, also in the images made from it, or they are in the images
\* made from it by `after` operations and more.
NotFlat == [some |-> FALSE, after |-> 0]
FlatAfter(n) == [some |-> TRUE, after |-> n]

\* An image: whether it is None, img.shape, whether its pixels are constant
\* (`flat`), the operations that made it from the caller's image (`hist`), and
\* what the skew estimators of OpenCV find in it and in the images made from
\* it, in order (`skew`, nothing where the sequence ends).
Image(shape, flat, skew) ==
    [none |-> FALSE, shape |-> shape, flat |-> flat, hist |-> << >>, skew |-> skew]
NoneImage ==
    [none |-> TRUE, shape |-> << >>, flat |-> NotFlat, hist |-> << >>, skew |-> << >>]

\* A 2-D grayscale image and a colour image.
GrayImage == Image(<<2, 3>>, NotFlat, << >>)
ColorImage == Image(<<2, 3, 3>>, NotFlat, << >>)
Images == {GrayImage, ColorImage}

\* max_val == min_val in every channel of img
IsFlat(img) == img.flat.some /\ img.flat.after = 0

\* The channels OpenCV reads in img: the third dimension of a 3-D array; a
\* 2-D array has one, and so has a 1-D array, read as one column.
Channels(img) == IF Len(img.shape) = 3 THEN img.shape[3] ELSE 1

\* cv2.cvtColor(img, cv2.COLOR_BGR2GRAY) and COLOR_BGR2LAB take 3 or 4 channels.
IsBgr(img) == Channels(img) \in {3, 4}

\* The shape of the array an OpenCV function returns for the rows and columns
\* of img and `chan` channels: one channel comes back without a third
\* dimension.
CvShape(img, chan) ==
    LET rc == IF Len(img.shape) >= 2 THEN << img.shape[1], img.shape[2] >>
              ELSE IF Len(img.shape) = 1 THEN << img.shape[1], 1 >>
              ELSE << 1, 1 >>
    IN  IF chan = 1 THEN rc ELSE Append(rc, chan)

\* img.squeeze(): the dimensions of length 1 are dropped.
Squeeze(shape) == SelectSeq(shape, LAMBDA d : d # 1)

Tag(o, m, s) == [op |-> o, method |-> m, strength |-> s]

Abs(x) == IF x < 0 THEN -x ELSE x
Max(a, b) == IF a > b THEN a ELSE b
Min(a, b) == IF a < b THEN a ELSE b

\* The array an operation makes out of img: a new image of `chan` channels, in
\* which the estimators find what the caller's image has next.
NewImage(img, chan, tag) ==
    [none |-> FALSE, shape |-> CvShape(img, chan),
     flat |-> IF img.flat.some /\ img.flat.after > 0
              THEN FlatAfter(img.flat.after - 1) ELSE img.flat,
     hist |-> Append(img.hist, tag),
     skew |-> IF img.skew = << >> THEN << >> ELSE Tail(img.skew)]

\* A percentage held in a Python float: the binary64 that lies `ulp` binary64
\* values above (below, when negative) the binary64 nearest to the fraction
\* n / d.  Percent(n, d) is the binary64 nearest to n / d itself.  Two
\* percentages of different fractions are apart by at least 1 / (a.d * b.d),
\* far more than the few values `ulp` counts, so the fractions order them.
Percent(n, d) == [n |-> n, d |-> d, ulp |-> 0]
PctLeq(a, b) ==
    \/ a.n * b.d < b.n * a.d
    \/ a.n * b.d = b.n * a.d /\ a.ulp <= b.ulp
PctEq(a, b) == a.n * b.d = b.n * a.d /\ a.ulp = b.ulp
Hundred == Percent(100, 1)


-----------------------------------------------------------------------------
(* operations.py *)

\* get_operation(name): OP_REGISTRY.get(name).  "raise" is the TypeError of
\* hashing an unhashable name, "none" the miss, "func" a registered function.
get_operation(op_kind, name) ==
    IF op_kind = "list" THEN "raise"
    ELSE IF name \in OP_REGISTRY THEN "func"
    ELSE "none"

\* What one call op_func(img, params, progress) does: the within-step progress
\* values it reports, in order, then whether it returns (ok) and what.
OpOutcome(prog, ok, out, err) == [prog |-> prog, ok |-> ok, out |-> out, err |-> err]

NormalizeChannelProgress(chan) == [c \in 1..chan |-> 20 + (c - 1) * 25]

\* normalize_image with _normalize_channel.  A constant channel is returned as
\* it is (max_val == min_val), so a constant 2-D image comes back as the
\* argument itself; the channels of any other array go through cv2.split and
\* cv2.merge, which makes a new array ("flat" when every channel is constant
\* and goes into it as it is).  The tag keeps the blend weight in hundredths,
\* 100 for the full stretch of strength >= 1.0; with a weight of NaN or -inf
\* the blend is NaN and the pixels are what the conversion of NaN to uint8
\* leaves ("nan").
normalize_image(img, params) ==
    IF params.kind = "list"
    THEN OpOutcome(<<10>>, FALSE, img, "'list' object has no attribute 'get'")
    ELSE IF params.strength.t \in {"str", "digits"}
    THEN OpOutcome(<<10>>, FALSE, img, "unsupported operand type(s) for /: 'str' and 'float'")
    ELSE LET strength == params.strength
             tag == CASE IsFlat(img) -> Tag("normalize", "flat", 0)
                      [] strength.t = "absent" -> Tag("normalize", "", 50)
                      [] strength.t = "int" -> Tag("normalize", "", Min(strength.v, 100))
                      [] strength.t = "inf" /\ strength.v > 0 -> Tag("normalize", "", 100)
                      [] OTHER -> Tag("normalize", "nan", 0)
         IN  IF Len(img.shape) = 2
             THEN OpOutcome(<<10, 100>>, TRUE,
                            IF IsFlat(img) THEN img ELSE NewImage(img, 1, tag), "")
             ELSE OpOutcome(<<10>> \o NormalizeChannelProgress(Channels(img)) \o <<100>>,
                            TRUE, NewImage(img, Channels(img), tag), "")

\* to_grayscale: a 2-D image is returned as it is, a 3-D image of one channel
\* is squeezed (a view of the same pixels with every dimension of length 1
\* dropped), any other array is given to cv2.cvtColor.
to_grayscale(img, params) ==
    IF Len(img.shape) = 2
    THEN OpOutcome(<<20, 100>>, TRUE, img, "")
    ELSE IF Len(img.shape) = 3 /\ img.shape[3] = 1
    THEN OpOutcome(<<20, 100>>, TRUE, [img EXCEPT !.shape = Squeeze(img.shape)], "")
    ELSE IF IsBgr(img)
    THEN OpOutcome(<<20, 100>>, TRUE,
                   NewImage(img, 1, Tag("grayscale", "", 0)), "")
    ELSE OpOutcome(<<20>>, FALSE, img, "Invalid number of channels in input image")

\* n | 1 on a Python int: the lowest bit set, also for negative n.
OrOne(n) == IF n % 2 = 0 THEN n + 1 ELSE n

GaussianKsizeNotOdd(strength) == Max(3, strength)

\* denoise_image, line 297: ksize = max(3, int(strength) | 1)
GaussianKsize(strength) == Max(3, OrOne(strength))

\* denoise_image.  The tag keeps what the filter is run with: strength for
\* bilateral (d and both sigmas come from it), ksize for gaussian, h for nlm.
\* int() raises on a string that is no number, on NaN and on an infinity;
\* '5' * 7.5 raises; min(30, strength) raises on a string, is 30 on NaN (no
\* comparison with NaN holds) and on inf, and -inf on -inf.
\* cv2.bilateralFilter takes 8-bit images of one or three channels.
denoise_image(img, params) ==
    IF params.kind = "list"
    THEN OpOutcome(<<10>>, FALSE, img, "'list' object has no attribute 'get'")
    ELSE LET method == IF params.method = "absent" THEN "nlm" ELSE params.method
             strength == IF params.strength.t = "absent" THEN IntStrength(10)
                         ELSE params.strength
             int_error == CASE strength.t = "str" -> "invalid literal for int()"
                            [] strength.t = "nan" -> "cannot convert float NaN to integer"
                            [] strength.t = "inf" ->
                                   "cannot convert float infinity to integer"
                            [] OTHER -> ""
             Fails(err) == OpOutcome(<<10, 20>>, FALSE, img, err)
             Returns(with) ==
                 OpOutcome(<<10, 20, 100>>, TRUE,
                           NewImage(img, Channels(img), Tag("denoise", method, with)), "")
         IN  CASE method = "bilateral" ->
                    IF int_error # "" THEN Fails(int_error)
                    ELSE IF strength.t = "digits"
                    THEN Fails("can't multiply sequence by non-int of type 'float'")
                    ELSE IF Len(img.shape) = 3 /\ Channels(img) \notin {1, 3}
                    THEN Fails("(src.type() == CV_8UC1 || src.type() == CV_8UC3) && src.data != dst.data")
                    ELSE Returns(strength.v)
               [] method = "gaussian" ->
                    IF int_error # "" THEN Fails(int_error)
                    ELSE Returns(GaussianKsize(strength.v))
               [] OTHER ->
                    IF strength.t \in {"str", "digits"}
                    THEN Fails("'<' not supported between instances of 'str' and 'int'")
                    ELSE IF Len(img.shape) = 3 /\ ~IsBgr(img)
                    THEN Fails("Type of input image should be CV_8UC3 or CV_8UC4!")
                    ELSE Returns(CASE strength.t = "nan" -> 30
                                   [] strength.t = "inf" -> IF strength.v > 0 THEN 30 ELSE 3
                                   [] OTHER -> Max(3, Min(30, strength.v)))

\* clahe_contrast: a 2-D image is equalized; any other array is taken to
\* L*a*b* and enhanced on its luminance channel, and the result is the BGR
\* image of the three merged planes, of three channels whatever img has.
clahe_contrast(img, params) ==
    IF params.kind = "list"
    THEN OpOutcome(<<10>>, FALSE, img, "'list' object has no attribute 'get'")
    ELSE IF Len(img.shape) # 2 /\ ~IsBgr(img)
    THEN OpOutcome(<<10, 30>>, FALSE, img, "Invalid number of channels in input image")
    ELSE OpOutcome(IF Len(img.shape) = 2 THEN <<10, 30, 100>> ELSE <<10, 30, 50, 100>>,
                   TRUE,
                   NewImage(img, IF Len(img.shape) = 2 THEN 1 ELSE 3,
                            Tag("contrast", "clahe", 8)),
                   "")

\* threshold_image: the result is the binary image of the grayscale of img;
\* every method other than "adaptive" and "sauvola" is Otsu's.  The tag keeps
\* the block size, 15 when params has none.  On a 1-D array _sauvola_threshold
\* compares the array with the column cv2.blur returns and indexes it with the
\* square mask that gives.
threshold_image(img, params) ==
    IF params.kind = "list"
    THEN OpOutcome(<<10>>, FALSE, img, "'list' object has no attribute 'get'")
    ELSE LET method == IF params.method \in {"adaptive", "sauvola"}
                       THEN params.method ELSE "otsu"
         IN  IF Len(img.shape) = 3 /\ ~IsBgr(img)
             THEN OpOutcome(<<10>>, FALSE, img,
                            "Invalid number of channels in input image")
             ELSE IF method = "sauvola" /\ Len(img.shape) < 2
             THEN OpOutcome(<<10, 30, 40, 70, 90>>, FALSE, img,
                            "too many indices for array")
             ELSE OpOutcome(IF method = "sauvola" THEN <<10, 30, 40, 70, 90, 100>>
                                                  ELSE <<10, 30, 100>>,
                            TRUE,
                            NewImage(img, 1, Tag("threshold", method, 15)),
                            "")

\* Angles are Python floats.  An angle the program reads (a rectangle angle,
\* a Hough median, maxAngle) is the float of v hundredths of a degree; an angle
\* it computes is v hundredths and, in `e`, the side on which the float lies of
\* v / 100 (-1 below, 1 above, 0 on it), which decides the comparisons with an
\* angle that is read.  The order is that of the floats for limits that are
\* whole degrees or smaller than one degree.  An Optional[float]:
NoAngle == [some |-> FALSE, v |-> 0, e |-> 0]
Angle(v) == [some |-> TRUE, v |-> v, e |-> 0]

\* a < b on floats
AngleLess(a, b) == a.v < b.v \/ (a.v = b.v /\ a.e < b.e)
\* abs(a)
AbsAngle(a) ==
    IF AngleLess(a, Angle(0)) THEN [a EXCEPT !.v = -a.v, !.e = -a.e] ELSE a

\* The side on which the binary64 nearest to m / 100 lies of m / 100, for
\* 3200 <= m < 12800: the significand has 53 bits, so the float is the
\* multiple of 2^-46 (of 2^-47 below 64) nearest to m / 100, and
\* 2^46 = 64, 2^47 = 28 modulo 100.
RoundingSide(m) ==
    LET r == (m * (IF m >= 6400 THEN 64 ELSE 28)) % 100
    IN  IF r = 0 THEN 0 ELSE IF r < 50 THEN -1 ELSE 1

\* _detect_skew_contour from the angle of the minimum-area rectangle of the
\* largest contour; NoAngle when there is no contour.  angle += 90 and
\* angle -= 90 are exact on the float of the raw angle, so the sum keeps the
\* whole rounding error of that float.
_detect_skew_contour(rect) ==
    IF ~rect.some THEN NoAngle
    ELSE IF rect.v < -4500
         THEN [Angle(rect.v + 9000) EXCEPT !.e = -RoundingSide(-rect.v)]
    ELSE IF rect.v > 4500
         THEN [Angle(rect.v - 9000) EXCEPT !.e = RoundingSide(rect.v)]
    ELSE rect

UseHoughOnlyIfMissing(angle, max_angle) == ~angle.some

\* deskew_image, line 154: the contour result is not relied on.
UseHough(angle, max_angle) ==
    ~angle.some \/ AngleLess(Angle(max_angle), AbsAngle(angle))

\* deskew_image, line 164: max(-max_angle, min(max_angle, angle))
ClampAngle(angle, max_angle) ==
    LET x == IF AngleLess(angle, Angle(max_angle)) THEN angle ELSE Angle(max_angle)
    IN  IF AngleLess(Angle(-max_angle), x) THEN x ELSE Angle(-max_angle)

\* deskew_image for an image whose largest contour has rectangle angle `rect`
\* and whose Hough lines have median angle `hough`.  Beside the outcome, the
\* record keeps the contour candidate, the angle before and after the clamp and
\* the branches taken.
deskew_image(img, rect, hough, max_angle) ==
    LET contour == _detect_skew_contour(rect)
        use_hough == UseHough(contour, max_angle)
        candidate == IF use_hough THEN hough ELSE contour
        chosen == IF candidate.some THEN candidate ELSE Angle(0)
        angle == ClampAngle(chosen, max_angle)
        \* abs(angle) < 0.1
        rotate == ~AngleLess(AbsAngle(angle), Angle(10))
        \* is_color, and cv2.cvtColor is given one channel
        no_gray == Len(img.shape) = 3 /\ ~IsBgr(img)
        \* _detect_skew_hough, line 226: gray.shape[1] of an array of fewer
        \* than two dimensions
        no_cols == use_hough /\ Len(img.shape) < 2
        \* h, w = img.shape[:2] of an array of fewer than two dimensions
        no_rows == ~use_hough /\ rotate /\ Len(img.shape) < 2
    IN  [prog |-> IF no_gray THEN <<10>>
                  ELSE IF no_cols THEN <<10, 20, 40>>
                  ELSE <<10, 20>> \o (IF use_hough THEN <<40>> ELSE << >>)
                           \o (IF no_rows THEN <<60>> ELSE <<60, 100>>),
         ok |-> ~no_gray /\ ~no_cols /\ ~no_rows,
         out |-> IF no_gray \/ no_cols \/ no_rows THEN img
                 ELSE IF rotate
                 THEN NewImage(img, Channels(img),
                               Tag("deskew",
                                   CASE angle.e < 0 -> "rotate-"
                                     [] angle.e = 0 -> "rotate"
                                     [] angle.e > 0 -> "rotate+",
                                   angle.v))
                 ELSE img,
         err |-> IF no_gray THEN "Invalid number of channels in input image"
                 ELSE IF no_cols THEN "tuple index out of range"
                 ELSE IF no_rows THEN "not enough values to unpack (expected 2, got 1)"
                 ELSE "",
         contour |-> contour, used_hough |-> use_hough, chosen |-> chosen,
         angle |-> angle, rotated |-> rotate /\ ~no_gray /\ ~no_cols /\ ~no_rows]

\* What the estimators find in one image: the angle of the minimum-area
\* rectangle of its largest contour and the median angle of its near-horizontal
\* Hough lines, each missing when OpenCV finds no contour or no such line.
Found(rect, hough) == [rect |-> rect, hough |-> hough]

\* cv2.minAreaRect(largest)[-1] in _detect_skew_contour(gray), and the value of
\* _detect_skew_hough(gray), for the grayscale of img.
RectAngleOf(img) == IF img.skew = << >> THEN NoAngle ELSE Head(img.skew).rect
HoughAngleOf(img) == IF img.skew = << >> THEN NoAngle ELSE Head(img.skew).hough

\* deskew_image as the executor calls it: maxAngle is 15 when params has none.
deskew_step(img, params) ==
    IF params.kind = "list"
    THEN OpOutcome(<<10>>, FALSE, img, "'list' object has no attribute 'get'")
    ELSE LET max_angle == IF params.maxAngle.t = "absent" THEN 1500
                          ELSE 100 * params.maxAngle.v
             r == deskew_image(img, RectAngleOf(img), HoughAngleOf(img), max_angle)
         IN  OpOutcome(r.prog, r.ok, r.out, r.err)

\* sharpen_image as the executor calls it, amount being 50 and radius 1.0
\* when params has none: the image is blurred and the mask applied.
sharpen_step(img, params) ==
    IF params.kind = "list"
    THEN OpOutcome(<<10>>, FALSE, img, "'list' object has no attribute 'get'")
    ELSE OpOutcome(<<10, 30, 60, 100>>, TRUE,
                   NewImage(img, Channels(img), Tag("sharpen", "unsharp", 50)),
                   "")

\* op_func(current_image, params, progress) for the registered name `op`.
OpRun(op, img, params) ==
    CASE op = "normalize" -> normalize_image(img, params)
      [] op = "grayscale" -> to_grayscale(img, params)
      [] op = "deskew" -> deskew_step(img, params)
      [] op = "denoise" -> denoise_image(img, params)
      [] op = "contrast" -> clahe_contrast(img, params)
      [] op = "sharpen" -> sharpen_step(img, params)
      [] op = "threshold" -> threshold_image(img, params)

-----------------------------------------------------------------------------
(* progress.py *)

OverallPercentNoIndex(step_index, total_steps, p) ==
    LET d == IF total_steps > 0 THEN total_steps ELSE 1
        hi == 100 * d
    IN  Percent(IF p < 0 THEN 0 ELSE IF p > hi THEN hi ELSE p, d)

\* Python floats are binary64.  The arithmetic of __call__ is carried out on
\* naturals of any size, held as sequences of 15-bit limbs, the least
\* significant first and the last one not 0 (<< >> is 0), so that no
\* intermediate value leaves 32 bits.  A binary64 above 0 is a record
\* [m, e] that stands for m * 2^e, m a natural of at most 53 bits (2^53 * 2^e
\* also stands for 2^52 * 2^(e + 1)).
RECURSIVE Log2(_)
Log2(n) == IF n < 2 THEN 0 ELSE 1 + Log2(n \div 2)
RECURSIVE Pow2(_)
Pow2(k) == IF k = 0 THEN 1 ELSE 2 * Pow2(k - 1)

Limb == Pow2(15)
LimbBits == Log2(Limb)

Front(a) == SubSeq(a, 1, Len(a) - 1)
Last(a) == a[Len(a)]
Rest(a) == IF a = << >> THEN << >> ELSE Tail(a)
Low(a) == IF a = << >> THEN 0 ELSE Head(a)

\* The operations of this arithmetic, one operator for all of them so that
\* each is written down, and accounted for by TLC, once.  On naturals:
\*   "trim"     a without leading zero limbs
\*   "of"       the limbs of the integer a, 0 <= a < 2^31
\*   "add"      a + b + c, c a carry
\*   "sub"      a - b - c for a >= b + c, c a borrow (not trimmed)
\*   "less"     a < b
\*   "by limb"  a * b + c for a limb b and a carry c
\*   "limbs"    a * Limb^b
\*   "times"    a * b
\*   "divrem"   the limbs of (c * Limb^Len(a) + a) \div b (not trimmed) and
\*              the remainder, for 0 <= c < b <= Limb
\*   "div"      a \div b and the remainder, for 0 < b <= Limb
\*   "bits"     the number of bits of a
\*   "shift"    a * 2^b
\*   "drop"     a without its b lowest limbs
\*   "any"      whether one of the b lowest limbs of a is not 0
\*   "gap"      a - b as an integer, cut off at Limb and -Limb
\* On binary64 values:
\*   "round"    the binary64 nearest to (a + s) * 2^b, where 0 <= s < 1 and
\*              s > 0 exactly when c: round to nearest, ties to the even
\*              significand
\*   "normal"   the value a with a significand of exactly 53 bits
\*   "quotient" the binary64 nearest to a / b for integers 0 < a < 2^31 and
\*              0 < b <= Limb: the float of a literal such as 0.3, and 1.0 / b
\*   "over"     a / b in binary64 for a binary64 a and an integer b
\*   "product"  a * b in binary64
\*   "scaled"   a * b in binary64 for a binary64 a and a limb b
\*   "at"       the significand of a at the exponent b <= a.e
\*   "below"    a < b
\*   "places"   how many binary64 values a lies above b (below, when
\*              negative), cut off at Limb
RECURSIVE Float64Op(_, _, _, _)
Float64Op(op, a, b, c) ==
    CASE op = "trim" ->
            IF a = << >> THEN << >>
            ELSE IF Last(a) = 0 THEN Float64Op("trim", Front(a), 0, 0)
            ELSE a
      [] op = "of" ->
            IF a = 0 THEN << >>
            ELSE <<a % Limb>> \o Float64Op("of", a \div Limb, 0, 0)
      [] op = "add" ->
            IF a = << >> /\ b = << >>
            THEN IF c = 0 THEN << >> ELSE <<c>>
            ELSE LET x == Low(a) + Low(b) + c
                 IN  <<x % Limb>> \o Float64Op("add", Rest(a), Rest(b), x \div Limb)
      [] op = "sub" ->
            IF a = << >> THEN << >>
            ELSE LET x == Head(a) - Low(b) - c
                 IN  <<(x + Limb) % Limb>>
                        \o Float64Op("sub", Tail(a), Rest(b), IF x < 0 THEN 1 ELSE 0)
      [] op = "less" ->
            IF Len(a) # Len(b) THEN Len(a) < Len(b)
            ELSE IF a = << >> THEN FALSE
            ELSE IF Last(a) # Last(b) THEN Last(a) < Last(b)
            ELSE Float64Op("less", Front(a), Front(b), 0)
      [] op = "by limb" ->
            IF b = 0 THEN << >>
            ELSE IF a = << >> THEN (IF c = 0 THEN << >> ELSE <<c>>)
            ELSE LET x == Head(a) * b + c
                 IN  <<x % Limb>> \o Float64Op("by limb", Tail(a), b, x \div Limb)
      [] op = "limbs" ->
            IF a = << >> \/ b = 0 THEN a
            ELSE <<0>> \o Float64Op("limbs", a, b - 1, 0)
      [] op = "times" ->
            IF b = << >> THEN << >>
            ELSE Float64Op("add", Float64Op("by limb", a, Head(b), 0),
                           Float64Op("limbs", Float64Op("times", a, Tail(b), 0), 1, 0),
                           0)
      [] op = "divrem" ->
            IF a = << >> THEN [quot |-> << >>, rem |-> c]
            ELSE LET x == c * Limb + Last(a)
                     q == Float64Op("divrem", Front(a), b, x % b)
                 IN  [quot |-> Append(q.quot, x \div b), rem |-> q.rem]
      [] op = "div" ->
            LET q == Float64Op("divrem", a, b, 0)
            IN  [quot |-> Float64Op("trim", q.quot, 0, 0), rem |-> q.rem]
      [] op = "bits" ->
            IF a = << >> THEN 0
            ELSE LimbBits * (Len(a) - 1) + Log2(Last(a)) + 1
      [] op = "shift" ->
            Float64Op("limbs", Float64Op("by limb", a, Pow2(b % LimbBits), 0),
                      b \div LimbBits, 0)
      [] op = "drop" ->
            IF b = 0 \/ a = << >> THEN a ELSE Float64Op("drop", Tail(a), b - 1, 0)
      [] op = "any" ->
            b > 0 /\ a # << >> /\ (Head(a) # 0 \/ Float64Op("any", Tail(a), b - 1, 0))
      [] op = "gap" ->
            IF Float64Op("less", a, b, 0) THEN -Float64Op("gap", b, a, 0)
            ELSE LET d == Float64Op("trim", Float64Op("sub", a, b, 0), 0, 0)
                 IN  IF Len(d) > 1 THEN Limb ELSE Low(d)
      [] op = "round" ->
            LET sh == Float64Op("bits", a, 0, 0) - 53
            IN  IF sh <= 0 THEN [m |-> a, e |-> b]
                ELSE LET whole == (sh - 1) \div LimbBits
                         q2 == Float64Op("div", Float64Op("drop", a, whole, 0),
                                         Pow2((sh - 1) % LimbBits), 0)
                         q == Float64Op("div", q2.quot, 2, 0)
                         up == /\ q.rem = 1
                               /\ \/ c
                                  \/ q2.rem # 0
                                  \/ Float64Op("any", a, whole, 0)
                                  \/ Head(q.quot) % 2 = 1
                     IN  [m |-> IF up THEN Float64Op("add", q.quot, <<1>>, 0)
                                ELSE q.quot,
                          e |-> b + sh]
      [] op = "normal" ->
            LET n == Float64Op("bits", a.m, 0, 0)
            IN  IF n = 54
                THEN [m |-> Float64Op("div", a.m, 2, 0).quot, e |-> a.e + 1]
                ELSE [m |-> Float64Op("shift", a.m, 53 - n, 0), e |-> a.e - (53 - n)]
      [] op = "quotient" ->
            LET q == Float64Op("div", Float64Op("shift", Float64Op("of", a, 0, 0), 75, 0),
                               b, 0)
            IN  Float64Op("round", q.quot, -75, q.rem # 0)
      [] op = "over" ->
            LET q == Float64Op("div", Float64Op("shift", a.m, 75, 0), b, 0)
            IN  Float64Op("round", q.quot, a.e - 75, q.rem # 0)
      [] op = "product" ->
            Float64Op("round", Float64Op("times", a.m, b.m, 0), a.e + b.e, FALSE)
      [] op = "scaled" ->
            Float64Op("round", Float64Op("by limb", a.m, b, 0), a.e, FALSE)
      [] op = "at" -> Float64Op("shift", a.m, a.e - b, 0)
      [] op = "below" ->
            LET e == IF a.e < b.e THEN a.e ELSE b.e
            IN  Float64Op("less", Float64Op("at", a, e, 0), Float64Op("at", b, e, 0), 0)
      [] op = "places" ->
            LET x == Float64Op("normal", a, 0, 0)
                y == Float64Op("normal", b, 0, 0)
                p52 == Float64Op("shift", <<1>>, 52, 0)
                p53 == Float64Op("shift", <<1>>, 53, 0)
            IN  IF x.e = y.e THEN Float64Op("gap", x.m, y.m, 0)
                ELSE IF x.e = y.e + 1
                     THEN Float64Op("gap", x.m, p52, 0) + Float64Op("gap", p53, y.m, 0)
                ELSE IF x.e + 1 = y.e
                     THEN -(Float64Op("gap", y.m, p52, 0) + Float64Op("gap", p53, x.m, 0))
                ELSE IF x.e > y.e THEN Limb ELSE -Limb
      [] op = "plus" ->
            \* the integer a >= 0 plus the binary64 b (minus b when c): the sum
            \* when that is above 0; `pos` tells whether it is
            LET e == IF b.e < 0 THEN b.e ELSE 0
                x == Float64Op("shift", Float64Op("of", a, 0, 0), -e, 0)
                y == Float64Op("at", b, e, 0)
            IN  IF ~c
                THEN [pos |-> TRUE,
                      val |-> Float64Op("round", Float64Op("add", x, y, 0), e, FALSE)]
                ELSE IF Float64Op("less", y, x, 0)
                THEN [pos |-> TRUE,
                      val |-> Float64Op("round",
                                        Float64Op("trim", Float64Op("sub", x, y, 0), 0, 0),
                                        e, FALSE)]
                ELSE [pos |-> FALSE, val |-> b]

\* The binary64 nearest to n / d.
Float64Quotient(n, d) == Float64Op("quotient", n, d, 0)

\* self.step_index + percent in binary64, for the within-step value p in
\* hundredths (percent is the float nearest to p / 100): `pos` tells that the
\* sum is above 0, and then `val` is the sum.
StepPlusPercent(step_index, p) ==
    IF p = 0
    THEN [pos |-> step_index > 0, val |-> [m |-> Float64Op("of", step_index, 0, 0), e |-> 0]]
    ELSE Float64Op("plus", step_index,
                   Float64Quotient(IF p < 0 THEN -p ELSE p, 100), p < 0)

\* min(100, x) for a binary64 x
Float64Min100(x) ==
    LET hundred == [m |-> Float64Op("of", 100, 0, 0), e |-> 0]
    IN  IF Float64Op("below", hundred, x, 0) THEN hundred ELSE x

\* ProgressCallback.__call__: the overall percentage of the within-step value
\* p (in hundredths), computed in binary64 as
\* (step_index + percent) * (1.0 / total_steps) * 100 and clamped to [0, 100].
\* The result is given by the clamped fraction (100 * step_index + p) / d and
\* the number of binary64 values by which the computed float lies away from
\* the binary64 nearest to that fraction.
OverallPercent(step_index, total_steps, p) ==
    LET d == IF total_steps > 0 THEN total_steps ELSE 1
        n == step_index * 100 + p
        hi == 100 * d
        c == IF n < 0 THEN 0 ELSE IF n > hi THEN hi ELSE n
        s == StepPlusPercent(step_index, p)
        step_contribution == IF total_steps > 0 THEN Float64Quotient(1, total_steps)
                             ELSE Float64Quotient(1, 1)
        overall_percent ==
            Float64Op("scaled", Float64Op("product", s.val, step_contribution, 0),
                      100, 0)
    IN  IF ~s.pos THEN Percent(0, d)
        ELSE [n |-> c, d |-> d,
              ulp |-> Float64Op("places", Float64Min100(overall_percent),
                                Float64Quotient(c, d), 0)]

\* The within-step values the operations report are multiples of 0.05.
OpPercents == { 5 * k : k \in 0..20 }

\* The percentages of the reports of the pipelines of up to MaxSteps steps,
\* computed once.
ShortPipelineReports ==
    { y \in (0..MaxSteps) \X (1..MaxSteps) \X OpPercents : y[1] < y[2] }
ShortPipelinePercents ==
    [x \in ShortPipelineReports |-> OverallPercent(x[1], x[2], x[3])] @@ << >>

\* percent of the ProgressInfo that __call__ builds
ReportedPercent(step_index, total_steps, p) ==
    IF <<step_index, total_steps, p>> \in ShortPipelineReports
    THEN ShortPipelinePercents[<<step_index, total_steps, p>>]
    ELSE OverallPercent(step_index, total_steps, p)

ProgressInfo(step, step_index, total_steps, p) ==
    [step |-> step, percent |-> ReportedPercent(step_index, total_steps, p),
     step_index |-> step_index, total_steps |-> total_steps]

\* ProgressAggregator.__init__
\* The "error" of a step record: None, or a string (str(e), which may be
\* empty).
NoError == [none |-> TRUE, str |-> ""]
ErrorStr(s) == [none |-> FALSE, str |-> s]

NewAggregator ==
    [steps |-> <<>>, start_time |-> -1, end_time |-> -1, current_step |-> "",
     current_percent |-> Percent(0, 1)]

\* ProgressAggregator.start
AggStart(a, t) == [a EXCEPT !.start_time = t, !.steps = <<>>]

AggStepStartedRunningTotal(a, step_name, index, total, t) ==
    [a EXCEPT !.current_step = step_name,
              !.steps = Append(@, [step |-> step_name, index |-> index,
                                   total |-> index + 1, start_time |-> t,
                                   end_time |-> -1, duration_ms |-> -1,
                                   success |-> "none", error |-> NoError])]

\* ProgressAggregator.step_started
AggStepStarted(a, step_name, index, total, t) ==
    [a EXCEPT !.current_step = step_name,
              !.steps = Append(@, [step |-> step_name, index |-> index,
                                   total |-> total, start_time |-> t,
                                   end_time |-> -1, duration_ms |-> -1,
                                   success |-> "none", error |-> NoError])]

AggStepCompletedFirst(a, success, error, t) ==
    IF a.steps = <<>> THEN a
    ELSE [a EXCEPT !.steps[1].end_time = t,
                   !.steps[1].duration_ms = t - a.steps[1].start_time,
                   !.steps[1].success = IF success THEN "true" ELSE "false",
                   !.steps[1].error = error]

\* ProgressAggregator.step_completed
AggStepCompleted(a, success, error, t) ==
    IF a.steps = <<>> THEN a
    ELSE LET n == Len(a.steps)
         IN  [a EXCEPT !.steps[n].end_time = t,
                       !.steps[n].duration_ms = t - a.steps[n].start_time,
                       !.steps[n].success = IF success THEN "true" ELSE "false",
                       !.steps[n].error = error]

AggUpdateProgressMarksRunning(a, info) ==
    [a EXCEPT !.current_step = info.step, !.current_percent = info.percent,
              !.steps = [k \in 1..Len(a.steps) |->
                           IF a.steps[k].step = info.step
                           THEN [a.steps[k] EXCEPT !.success = "none", !.error = NoError]
                           ELSE a.steps[k]]]

\* ProgressAggregator.update_progress
AggUpdateProgress(a, info) ==
    [a EXCEPT !.current_step = info.step, !.current_percent = info.percent]

\* ProgressAggregator.finish
AggFinish(a, t) == [a EXCEPT !.end_time = t]

\* ProgressAggregator.get_summary
GetSummary(a) ==
    [total_duration_ms |->
        IF a.start_time > 0 /\ a.end_time > 0 THEN a.end_time - a.start_time ELSE 0,
     steps |-> [k \in 1..Len(a.steps) |->
                  [step |-> a.steps[k].step, duration_ms |-> a.steps[k].duration_ms,
                   success |-> a.steps[k].success, error |-> a.steps[k].error]],
     final_percent |-> a.current_percent]

-----------------------------------------------------------------------------
(* pipeline.py: validate_pipeline_config *)

VMsg(kind, index, op) == [kind |-> kind, index |-> index, op |-> op]

\* The messages one loop iteration appends for element `step` at 0-based index.
ValidateStep(step, index) ==
    IF step.kind # "dict" THEN << VMsg("not_dict", index, "") >>
    ELSE (IF step.op_kind = "absent" \/ (step.op_kind = "str" /\ step.op = "")
            THEN << VMsg("missing_op", index, "") >>
          ELSE IF step.op \notin OP_REGISTRY
            THEN << VMsg("unknown_op", index, step.op) >>
          ELSE << >>)
         \o
         (IF step.params.kind = "list"
            THEN << VMsg("params_not_dict", index, "") >>
          ELSE << >>)

RECURSIVE ValidateFrom(_, _)
ValidateFrom(items, k) ==
    IF k > Len(items) THEN << >>
    ELSE ValidateStep(items[k], k - 1) \o ValidateFrom(items, k + 1)

\* `op not in OP_REGISTRY` hashes op: a non-empty list raises TypeError.
ValidateRaises(s) ==
    /\ s.kind = "list"
    /\ \E k \in 1..Len(s.items) :
          s.items[k].kind = "dict" /\ s.items[k].op_kind = "list"

validate_pipeline_config(s) ==
    IF s.kind # "list"
    THEN [status |-> "returned", valid |-> FALSE,
          errors |-> << VMsg("not_list", -1, "") >>]
    ELSE IF ValidateRaises(s)
    THEN [status |-> "raised", valid |-> FALSE, errors |-> << >>]
    ELSE LET e == ValidateFrom(s.items, 1)
         IN  [status |-> "returned", valid |-> (Len(e) = 0), errors |-> e]

NotValidated == [status |-> "none", valid |-> FALSE, errors |-> << >>]

-----------------------------------------------------------------------------
(* pipeline.py: PipelineExecutor *)

\* s.get("enabled", True)
IsEnabled(s) == s.enabled # "false"

\* PipelineStep(op=s.get("op", ""), params=s.get("params", {}), enabled=...)
PipelineStep(s) ==
    [op_kind |-> IF s.op_kind = "list" THEN "list" ELSE "str",
     op |-> IF s.op_kind = "str" THEN s.op ELSE "",
     params |-> IF s.params.kind = "absent" THEN EmptyDict ELSE s.params]

ActiveStepsUnfiltered(items) == [k \in 1..Len(items) |-> PipelineStep(items[k])]

RECURSIVE ActiveSteps(_)
ActiveSteps(items) ==
    IF items = << >> THEN << >>
    ELSE (IF IsEnabled(Head(items)) THEN << PipelineStep(Head(items)) >> ELSE << >>)
         \o ActiveSteps(Tail(items))

\* The list comprehension calls s.get on every element and iterates `steps`.
FilterRaises(s) ==
    \/ s.kind # "list"
    \/ \E k \in 1..Len(s.items) : s.items[k].kind # "dict"

\* step_name as the aggregator and the error entries record it.
StepName(step) == IF step.op_kind = "list" THEN "<list>" ELSE step.op

\* _adjust_params_for_preview(op_name, params)
AdjustRaises(op_name, params) ==
    /\ op_name = "denoise"
    /\ \/ params.kind = "list"
       \/ params.method = "nlm" /\ params.strength.t \in {"str", "digits"}

\* min(strength, 10) is strength unless 10 < strength: NaN, for which no
\* comparison holds, stays, and so does -inf.
MinWith10(strength) ==
    CASE strength.t = "absent" -> IntStrength(10)
      [] strength.t = "int" -> IntStrength(Min(strength.v, 10))
      [] strength.t = "inf" /\ strength.v > 0 -> IntStrength(10)
      [] OTHER -> strength

_adjust_params_for_preview(op_name, params) ==
    IF op_name = "denoise" /\ params.method = "nlm"
    THEN [params EXCEPT !.method = "bilateral", !.strength = MinWith10(params.strength)]
    ELSE params

\* Lines 139-146 up to the call of op_func: what the try block does before the
\* operation reports anything.  [raises, err, params]
PrepareParams(step, preview) ==
    IF step.params.kind = "none"
    THEN [raises |-> TRUE, err |-> "'NoneType' object has no attribute 'copy'",
          params |-> step.params]
    ELSE IF preview /\ AdjustRaises(step.op, step.params)
    THEN [raises |-> TRUE,
          err |-> IF step.params.kind = "list"
                  THEN "'list' object has no attribute 'get'"
                  ELSE "'<' not supported between instances of 'int' and 'str'",
          params |-> step.params]
    ELSE [raises |-> FALSE, err |-> "",
          params |-> IF preview THEN _adjust_params_for_preview(step.op, step.params)
                     ELSE step.params]

CallerParamsAliased(step, preview) ==
    IF step.params.kind = "none" \/ ~preview \/ AdjustRaises(step.op, step.params)
    THEN step.params
    ELSE _adjust_params_for_preview(step.op, step.params)

\* params = step.params.copy() and adjusted = params.copy(): what the caller's
\* mapping holds once the parameters of the call have been prepared.
CallerParams(step, preview) == step.params

\* One call op_func(current_image, params, progress) of step `index`.
Call(index, op, img, params) ==
    [index |-> index, op |-> op, image |-> img, params |-> params]

ErrorInfoOneBased(step_name, index, error) ==
    [step |-> step_name, index |-> index + 1, error |-> error]

ErrorInfo(step_name, index, error) ==
    [step |-> step_name, index |-> index, error |-> error]

UnknownOperation(step_name) == "Unknown operation: " \o step_name

FinalSuccessAlways(errs) == TRUE

\* success=len(errors) == 0
FinalSuccess(errs) == Len(errs) = 0

ShouldHaltNever(coe) == FALSE

ShouldHaltAlways(coe) == TRUE

\* if not self.continue_on_error: finish and return
ShouldHalt(coe) == ~coe

PipelineResult(success, img, a, errs) ==
    [status |-> "returned", success |-> success, image |-> img,
     progress_info |-> GetSummary(a), errors |-> errs]

NoResult ==
    [status |-> "none", success |-> FALSE, image |-> NoneImage,
     progress_info |-> GetSummary(NewAggregator), errors |-> << >>]

NoOp == OpOutcome(<< >>, TRUE, NoneImage, "")

-----------------------------------------------------------------------------
(* The state machine *)

\* The caller's image: an array, or None.
CallerImages == Images \cup {NoneImage}

Init ==
    /\ steps \in StepInputs
    /\ image \in CallerImages
    /\ continue_on_error \in BOOLEAN
    /\ preview_mode \in BOOLEAN
    /\ pc = "idle"
    /\ active_steps = << >>
    /\ i = 0
    /\ current_image = image
    /\ errors = << >>
    /\ op_run = NoOp
    /\ j = 0
    /\ agg = NewAggregator
    /\ result = NoResult
    /\ reported = << >>
    /\ calls = << >>
    /\ vres = NotValidated
    /\ now = 1
    /\ fn = << >>
    /\ pair = << >>

\* The caller validates the step list before running it (main.py:258).
Validate ==
    /\ pc = "idle"
    /\ vres.status = "none"
    /\ vres' = validate_pipeline_config(steps)
    /\ UNCHANGED <<steps, image, continue_on_error, preview_mode, pc, active_steps,
                   i, current_image, errors, op_run, j, agg, result, reported, calls,
                   now>>
    /\ UNCHANGED aux

\* execute, lines 78-101: start the aggregator, filter, return at once when no
\* step is enabled, copy the image (None has no copy).
Execute ==
    /\ pc = "idle"
    /\ now' = now + 1
    /\ reported' = << >>
    /\ calls' = << >>
    /\ IF FilterRaises(steps)
       THEN /\ pc' = "raised"
            /\ agg' = AggStart(agg, now)
            /\ UNCHANGED <<active_steps, i, current_image, errors, result>>
       ELSE LET active == ActiveSteps(steps.items)
            IN  IF active = << >>
                THEN /\ pc' = "done"
                     /\ agg' = AggFinish(AggStart(agg, now), now)
                     /\ result' = PipelineResult(TRUE, image, agg', << >>)
                     /\ UNCHANGED <<active_steps, i, current_image, errors>>
                ELSE IF image.none
                THEN /\ pc' = "raised"
                     /\ agg' = AggStart(agg, now)
                     /\ UNCHANGED <<active_steps, i, current_image, errors, result>>
                ELSE /\ pc' = "loop"
                     /\ agg' = AggStart(agg, now)
                     /\ active_steps' = active
                     /\ i' = 0
                     /\ current_image' = image
                     /\ errors' = << >>
                     /\ UNCHANGED result
    /\ UNCHANGED <<steps, image, continue_on_error, preview_mode, op_run, j, vres>>
    /\ UNCHANGED aux

\* The two error branches (lines 113-129 and 150-170): record the error, complete
\* the step as failed, and halt unless continue_on_error.  `a` is the aggregator
\* as the branch finds it.
StepFailed(a, error) ==
    LET step_name == StepName(active_steps[i + 1])
        errs == Append(errors, ErrorInfo(step_name, i, error))
        a2 == AggStepCompleted(a, FALSE, ErrorStr(error), now)
    IN  /\ errors' = errs
        /\ IF ShouldHalt(continue_on_error)
           THEN /\ agg' = AggFinish(a2, now)
                /\ result' = PipelineResult(FALSE, current_image, agg', errs)
                /\ pc' = "done"
                /\ UNCHANGED i
           ELSE /\ agg' = a2
                /\ pc' = "loop"
                /\ i' = i + 1
                /\ UNCHANGED result

\* One loop iteration up to the call of the operation (lines 103-146).
StepStart ==
    /\ pc = "loop"
    /\ i < Len(active_steps)
    /\ now' = now + 1
    /\ LET step == active_steps[i + 1]
           a1 == AggStepStarted(agg, StepName(step), i, Len(active_steps), now)
           op_func == get_operation(step.op_kind, step.op)
           prep == PrepareParams(step, preview_mode)
       IN  CASE op_func = "raise" ->
                  /\ pc' = "raised"
                  /\ agg' = a1
                  /\ UNCHANGED <<i, errors, result, op_run, j, calls, active_steps>>
             [] op_func = "none" ->
                  /\ StepFailed(a1, UnknownOperation(StepName(step)))
                  /\ UNCHANGED <<op_run, j, calls, active_steps>>
             [] op_func = "func" /\ prep.raises ->
                  /\ StepFailed(a1, prep.err)
                  /\ active_steps' = [active_steps EXCEPT
                                        ![i + 1].params = CallerParams(step, preview_mode)]
                  /\ UNCHANGED <<op_run, j, calls>>
             [] op_func = "func" /\ ~prep.raises ->
                  /\ pc' = "op"
                  /\ agg' = a1
                  /\ active_steps' = [active_steps EXCEPT
                                        ![i + 1].params = CallerParams(step, preview_mode)]
                  /\ op_run' = OpRun(step.op, current_image, prep.params)
                  /\ calls' = Append(calls, Call(i, step.op, current_image, prep.params))
                  /\ j' = 0
                  /\ UNCHANGED <<i, errors, result>>
    /\ UNCHANGED <<steps, image, continue_on_error, preview_mode,
                   current_image, reported, vres>>
    /\ UNCHANGED aux

\* The running operation calls progress(p): ProgressCallback.__call__, then
\* _handle_step_progress, then ProgressAggregator.update_progress.
OpProgress ==
    /\ pc = "op"
    /\ j < Len(op_run.prog)
    /\ LET info == ProgressInfo(StepName(active_steps[i + 1]), i, Len(active_steps),
                                op_run.prog[j + 1])
       IN  /\ agg' = AggUpdateProgress(agg, info)
           /\ reported' = Append(reported, info.percent)
    /\ j' = j + 1
    /\ now' = now + 1
    /\ UNCHANGED <<steps, image, continue_on_error, preview_mode, pc, active_steps,
                   i, current_image, errors, op_run, result, calls, vres>>
    /\ UNCHANGED aux

\* The operation returns (lines 146-148).
OpReturn ==
    /\ pc = "op"
    /\ j = Len(op_run.prog)
    /\ op_run.ok
    /\ current_image' = op_run.out
    /\ agg' = AggStepCompleted(agg, TRUE, NoError, now)
    /\ i' = i + 1
    /\ pc' = "loop"
    /\ now' = now + 1
    /\ UNCHANGED <<steps, image, continue_on_error, preview_mode, active_steps,
                   errors, op_run, j, result, reported, calls, vres>>
    /\ UNCHANGED aux

\* The operation raises (lines 150-170).
OpRaise ==
    /\ pc = "op"
    /\ j = Len(op_run.prog)
    /\ ~op_run.ok
    /\ StepFailed(agg, op_run.err)
    /\ now' = now + 1
    /\ UNCHANGED <<steps, image, continue_on_error, preview_mode, active_steps,
                   current_image, op_run, j, reported, calls, vres>>
    /\ UNCHANGED aux

\* After the loop (lines 172-179).
Finish ==
    /\ pc = "loop"
    /\ i = Len(active_steps)
    /\ agg' = AggFinish(agg, now)
    /\ result' = PipelineResult(FinalSuccess(errors), current_image, agg', errors)
    /\ pc' = "done"
    /\ now' = now + 1
    /\ UNCHANGED <<steps, image, continue_on_error, preview_mode, active_steps, i,
                   current_image, errors, op_run, j, reported, calls, vres>>
    /\ UNCHANGED aux

Next ==
    \/ Validate
    \/ Execute
    \/ StepStart
    \/ OpProgress
    \/ OpReturn
    \/ OpRaise
    \/ Finish

Spec == Init /\ [][Next]_vars

\* Requests over the whole registry: every registered operation with empty
\* params, the Sauvola threshold, deskew with maxAngle 45, an operation handed
\* a list as params, an unknown operation and a disabled step.  The preview
\* mode, which alters only denoise params, is off.
RegistryPool ==
    { StepDict("str", op, EmptyDict, "true") : op \in OP_REGISTRY }
        \cup { StepDict("str", "threshold", PDict("sauvola", NoStrength), "absent"),
               StepDict("str", "deskew", PMaxAngle(45), "true"),
               StepDict("str", "sharpen", PList, "true"),
               StepDict("str", "bogus", EmptyDict, "true"),
               StepDict("str", "deskew", EmptyDict, "false") }

RegistryInputs ==
    { [kind |-> "list", items |-> s] : s \in SeqsUpTo(RegistryPool, MaxRegistrySteps) }

\* The caller's images: pages in which the estimators find nothing; a page
\* tilted by 5 degrees that is found upright (rectangle angle 90) once an
\* operation has made a new image of it; a page whose largest contour lies at
\* 30 degrees and whose lines lie at 2.86 degrees, before and after an
\* operation; a page whose rectangle angle, -89.9, is 0.1 degrees from upright;
\* blank pages, of constant pixels, and a page that an operation makes blank;
\* a page of four channels.
RegistryImages ==
    { Image(shape, NotFlat, s) :
        shape \in { << 2, 3 >>, << 2, 3, 3 >> },
        s \in { << >>,
                << Found(Angle(500), NoAngle), Found(Angle(9000), NoAngle) >>,
                << Found(Angle(3000), Angle(286)), Found(Angle(3000), Angle(286)) >>,
                << Found(Angle(-8990), Angle(0)) >> } }
        \cup { Image(<< 2, 3 >>, FlatAfter(0), << >>),
               Image(<< 2, 3, 3 >>, FlatAfter(0), << >>),
               Image(<< 2, 3 >>, FlatAfter(1), << >>),
               Image(<< 2, 3, 4 >>, NotFlat, << >>) }

InitRegistry ==
    /\ steps \in RegistryInputs
    /\ image \in RegistryImages
    /\ continue_on_error \in BOOLEAN
    /\ preview_mode = FALSE
    /\ pc = "idle"
    /\ active_steps = << >>
    /\ i = 0
    /\ current_image = image
    /\ errors = << >>
    /\ op_run = NoOp
    /\ j = 0
    /\ agg = NewAggregator
    /\ result = NoResult
    /\ reported = << >>
    /\ calls = << >>
    /\ vres = NotValidated
    /\ now = 1
    /\ fn = << >>
    /\ pair = << >>

SpecRegistry == InitRegistry /\ [][Next]_vars

-----------------------------------------------------------------------------
(* Reference semantics of a step list, used to state the claims *)

\* The caller's steps that are not disabled, in list order.
EnabledSteps ==
    LET dicts == SelectSeq(steps.items, LAMBDA s : s.enabled # "false")
    IN  [k \in 1..Len(dicts) |-> PipelineStep(dicts[k])]

\* What running one step on img amounts to: [ok, out].
StepOutcome(img, step) ==
    IF get_operation(step.op_kind, step.op) # "func"
    THEN [ok |-> FALSE, out |-> img]
    ELSE LET prep == PrepareParams(step, preview_mode)
         IN  IF prep.raises THEN [ok |-> FALSE, out |-> img]
             ELSE LET o == OpRun(step.op, img, prep.params)
                  IN  [ok |-> o.ok, out |-> o.out]

\* The image after the first n steps of seq, a failed step passing its input on.
RECURSIVE RefApply(_, _, _)
RefApply(img, seq, n) ==
    IF n = 0 THEN img
    ELSE LET prev == RefApply(img, seq, n - 1)
             o == StepOutcome(prev, seq[n])
         IN  IF o.ok THEN o.out ELSE prev

\* The 0-based positions of the steps of seq that fail.
RefFailing(img, seq) ==
    { n - 1 : n \in { m \in 1..Len(seq) :
                        ~StepOutcome(RefApply(img, seq, m - 1), seq[m]).ok } }

SetMin(S) == CHOOSE x \in S : \A y \in S : x <= y

WellFormedList ==
    /\ steps.kind = "list"
    /\ \A k \in 1..Len(steps.items) : steps.items[k].kind = "dict"

Returned == pc = "done" /\ result.status = "returned"

-----------------------------------------------------------------------------
(* Claims *)

\* C1: for every image and every step list in which no step is enabled
\* (the empty list included), execute returns success, the input image, no
\* errors and a summary with no step outcomes.
C1_NoEnabledStepIsNoOp ==
    (pc = "done" /\ WellFormedList
        /\ \A k \in 1..Len(steps.items) : steps.items[k].enabled = "false")
    => /\ result.status = "returned"
       /\ result.success
       /\ result.image = image
       /\ result.errors = << >>
       /\ result.progress_info.steps = << >>

C1_Witness ==
    /\ Returned
    /\ Len(steps.items) = 2
    /\ \A k \in 1..Len(steps.items) : steps.items[k].enabled = "false"
    /\ result.success

\* C2: a returned result has success = TRUE exactly when no step was enabled
\* or every executed step completed without error, also when the run went on
\* to the last step under continue_on_error.
C2_SuccessIffNoStepErrored ==
    Returned =>
        (result.success <=>
            \/ EnabledSteps = << >>
            \/ \A k \in 1..Len(result.progress_info.steps) :
                  result.progress_info.steps[k].success = "true")

C2_Witness ==
    /\ Returned
    /\ continue_on_error
    /\ Len(result.progress_info.steps) = 3
    /\ result.progress_info.steps[1].success = "false"
    /\ result.progress_info.steps[3].success = "true"
    /\ ~result.success

\* C3: with continue_on_error = FALSE the first failing step, at enabled
\* position k, halts the pipeline: k+1 step records, one error entry (for k),
\* success = FALSE, and the image is that of steps 0..k-1 applied in order.
C3_StrictModeHalts ==
    (Returned /\ ~continue_on_error /\ RefFailing(image, EnabledSteps) # {})
    => LET k == SetMin(RefFailing(image, EnabledSteps))
       IN  /\ Len(result.progress_info.steps) = k + 1
           /\ \A m \in 1..k : result.progress_info.steps[m].success = "true"
           /\ result.progress_info.steps[k + 1].success = "false"
           /\ Len(result.errors) = 1
           /\ result.errors[1].index = k
           /\ result.errors[1].step = StepName(EnabledSteps[k + 1])
           /\ ~result.success
           /\ result.image = RefApply(image, EnabledSteps, k)

C3_Witness ==
    /\ Returned
    /\ ~continue_on_error
    /\ image = ColorImage
    /\ Len(EnabledSteps) = 3
    /\ EnabledSteps[1].op = "normalize"
    /\ EnabledSteps[2].op = "bogus"
    /\ EnabledSteps[3].op = "grayscale"
    /\ Len(result.progress_info.steps) = 2
    /\ result.image = NewImage(ColorImage, 3, Tag("normalize", "", 50))

\* C4: with continue_on_error = TRUE every enabled step is started, the error
\* list holds exactly the failing steps in order, a failed step leaves the
\* working image as it entered the step, and the final image is the successful
\* steps applied in order.
C4_ContinueOnErrorAccounting ==
    continue_on_error =>
        /\ pc = "loop" => current_image = RefApply(image, EnabledSteps, i)
        /\ Returned =>
            /\ Len(result.progress_info.steps) = Len(EnabledSteps)
            /\ { result.errors[m].index : m \in 1..Len(result.errors) }
                  = RefFailing(image, EnabledSteps)
            /\ Len(result.errors) = Cardinality(RefFailing(image, EnabledSteps))
            /\ \A m \in 1..Len(result.errors) :
                  /\ result.errors[m].step
                        = StepName(EnabledSteps[result.errors[m].index + 1])
                  /\ m > 1 => result.errors[m - 1].index < result.errors[m].index
            /\ result.success <=> RefFailing(image, EnabledSteps) = {}
            /\ result.image = RefApply(image, EnabledSteps, Len(EnabledSteps))

C4_Witness ==
    /\ Returned
    /\ continue_on_error
    /\ image = ColorImage
    /\ Len(EnabledSteps) = 3
    /\ EnabledSteps[1].op = "normalize"
    /\ EnabledSteps[2].op = "bogus"
    /\ EnabledSteps[3].op = "grayscale"
    /\ Len(result.errors) = 1
    /\ result.errors[1].step = "bogus"
    /\ ~result.success
    /\ result.image = NewImage(NewImage(ColorImage, 3, Tag("normalize", "", 50)),
                               1, Tag("grayscale", "", 0))

\* C5: for every list of step mappings, whatever their op and params values,
\* execute returns a result and lets no fault escape; unknown and raising
\* operations become per-step error entries with a failed step record.
C5_NoFaultEscapes ==
    WellFormedList =>
        /\ pc # "raised"
        /\ Returned =>
              \A m \in 1..Len(result.errors) :
                 result.progress_info.steps[result.errors[m].index + 1].success = "false"

\* C6: the overall percentages one invocation reports, which are the values
\* stored as current_percent, never decrease, across steps and within a step.
C6_ProgressNonDecreasing ==
    /\ \A k \in 1..(Len(reported) - 1) : PctLeq(reported[k], reported[k + 1])
    /\ reported # << >> => agg.current_percent = reported[Len(reported)]

C6_Witness ==
    /\ Returned
    /\ Len(result.progress_info.steps) = 2
    /\ result.image.hist = << Tag("deskew", "rotate", 286) >>
    /\ result.progress_info.steps[2].success = "false"
    /\ Len(reported) >= 6

\* C7 as claimed: whenever an invocation with at least one executed step
\* completes, successfully or not, the last reported percentage and the
\* summary's final_percent are exactly 100.
C7_CompletionReports100 ==
    (Returned /\ result.progress_info.steps # << >>)
    => /\ PctEq(result.progress_info.final_percent, Hundred)
       /\ reported # << >>
       /\ PctEq(reported[Len(reported)], Hundred)

\* For step lists of fewer than 49 enabled steps: whenever an invocation
\* completes and its last enabled step ran and succeeded, the last reported
\* percentage and the summary's final_percent are 100.
C7_LastStepSuccessReports100 ==
    (/\ Returned
     /\ Len(result.progress_info.steps) = Len(EnabledSteps)
     /\ EnabledSteps # << >>
     /\ result.progress_info.steps[Len(EnabledSteps)].success = "true")
    => /\ PctEq(result.progress_info.final_percent, Hundred)
       /\ reported # << >>
       /\ PctEq(reported[Len(reported)], Hundred)

C7_Witness ==
    /\ Returned
    /\ Len(result.progress_info.steps) = 3
    /\ result.progress_info.steps[1].success = "false"
    /\ result.progress_info.steps[3].success = "true"
    /\ PctEq(result.progress_info.final_percent, Hundred)

\* C8: the validator answers valid = FALSE with a message naming index and
\* operation for every step whose op is no registry member, answers
\* valid = TRUE, errors = [] for every list of mappings with registry ops and
\* absent or map-shaped params, and valid holds exactly when errors is empty.
\* (For a step with no op at all the message names the index and the missing
\* field.)
C8_ValidatorCorrect ==
    (vres.status # "none" /\ steps.kind = "list")
    => /\ \A k \in 1..Len(steps.items) :
            LET s == steps.items[k]
            IN  (s.kind = "dict" /\ ~(s.op_kind = "str" /\ s.op \in OP_REGISTRY))
                => /\ vres.status = "returned"
                   /\ ~vres.valid
                   /\ \E m \in 1..Len(vres.errors) :
                         /\ vres.errors[m].index = k - 1
                         /\ IF s.op_kind = "absent"
                            THEN vres.errors[m].kind = "missing_op"
                            ELSE /\ vres.errors[m].kind = "unknown_op"
                                 /\ vres.errors[m].op = s.op
       /\ (\A k \in 1..Len(steps.items) :
              /\ steps.items[k].kind = "dict"
              /\ steps.items[k].op_kind = "str"
              /\ steps.items[k].op \in OP_REGISTRY
              /\ steps.items[k].params.kind \in {"absent", "dict"})
          => (vres.status = "returned" /\ vres.valid /\ vres.errors = << >>)
       /\ vres.status = "returned" => (vres.valid <=> vres.errors = << >>)

\* C9: validate_pipeline_config never raises: every input value gets a
\* {valid, errors} answer.
C9_ValidatorNeverRaises ==
    vres.status # "none" => vres.status = "returned"

\* The error messages that stem from the step's configuration: an operation
\* name outside the registry, or a params value the executor or the operation
\* cannot use.
ConfigCaused(e) ==
    \/ e.error = UnknownOperation(e.step)
    \/ e.error \in { "'NoneType' object has no attribute 'copy'",
                     "'list' object has no attribute 'get'",
                     "unsupported operand type(s) for /: 'str' and 'float'",
                     "invalid literal for int()",
                     "'<' not supported between instances of 'str' and 'int'",
                     "'<' not supported between instances of 'int' and 'str'" }

\* C10: executing a step list that the validator reports valid never yields a
\* step error caused by the configuration (unknown operation, malformed
\* params such as params = null).
C10_ValidConfigNeverFailsOnConfig ==
    (Returned /\ vres.status = "returned" /\ vres.valid)
    => \A m \in 1..Len(result.errors) : ~ConfigCaused(result.errors[m])

\* C13: enabled steps run strictly in list order, each on the output of the
\* nearest preceding successful step or on the caller's image, and a disabled
\* step is skipped entirely: it gets no step record, no call, no error and no
\* place in total_steps.
C13_OrderAndSkipping ==
    /\ \A k \in 1..Len(agg.steps) :
          /\ k <= Len(EnabledSteps)
          /\ agg.steps[k].step = StepName(EnabledSteps[k])
          /\ agg.steps[k].index = k - 1
          /\ agg.steps[k].total = Len(EnabledSteps)
    /\ \A m \in 1..Len(calls) :
          /\ calls[m].index < Len(agg.steps)
          /\ calls[m].op = EnabledSteps[calls[m].index + 1].op
          /\ calls[m].image = RefApply(image, EnabledSteps, calls[m].index)
          /\ m > 1 => calls[m - 1].index < calls[m].index
    /\ \A k \in 1..Len(errors) :
          /\ errors[k].index < Len(agg.steps)
          /\ errors[k].step = agg.steps[errors[k].index + 1].step
    /\ Returned /\ active_steps # << >> =>
          result.image = RefApply(image, EnabledSteps, Len(agg.steps))

C13_Witness ==
    /\ Returned
    /\ Len(steps.items) = 3
    /\ steps.items[2].enabled = "false"
    /\ Len(agg.steps) = 2
    /\ Len(calls) = 2
    /\ calls[2].image # image

\* The identity of a step record: what step_started wrote.
RecordKey(r) == [step |-> r.step, index |-> r.index, total |-> r.total,
                 start_time |-> r.start_time]

InProgress(r) == r.success = "none"

\* C14: at most one step record is in progress, and it is the last one; a step
\* of the invocation only appends records: the records already present keep
\* their position and identity.
C14_OneInProgressAppendOnly ==
    /\ [](\A k \in 1..Len(agg.steps) : InProgress(agg.steps[k]) => k = Len(agg.steps))
    /\ [][pc # "idle" =>
            /\ Len(agg'.steps) >= Len(agg.steps)
            /\ \A k \in 1..Len(agg.steps) :
                  RecordKey(agg'.steps[k]) = RecordKey(agg.steps[k])]_vars

C14_Witness ==
    /\ pc = "op"
    /\ Len(agg.steps) = 3
    /\ ~InProgress(agg.steps[1])
    /\ ~InProgress(agg.steps[2])
    /\ InProgress(agg.steps[3])

\* C15: handling a progress event changes only current_step and
\* current_percent of the aggregator; the success, error, end_time and duration
\* of every completed step record stay as they were.
C15_ProgressKeepsCompletedRecords ==
    [][Len(reported') = Len(reported) + 1 =>
          /\ agg' = [agg EXCEPT !.current_step = agg'.current_step,
                                !.current_percent = agg'.current_percent]
          /\ \A k \in 1..Len(agg.steps) :
                ~InProgress(agg.steps[k]) =>
                    /\ agg'.steps[k].success = agg.steps[k].success
                    /\ agg'.steps[k].error = agg.steps[k].error
                    /\ agg'.steps[k].end_time = agg.steps[k].end_time
                    /\ agg'.steps[k].duration_ms = agg.steps[k].duration_ms]_vars

C15_Witness ==
    /\ pc = "op"
    /\ j >= 1
    /\ Len(agg.steps) = 2
    /\ agg.steps[1].success = "true"
    /\ agg.steps[1].step = agg.steps[2].step
    /\ agg.current_percent.n > 0

\* The image the m-th call left behind: the input of the next call, or the
\* image of the result.
ImageAfterCall(m) == IF m < Len(calls) THEN calls[m + 1].image ELSE result.image

\* Requests of grayscale steps over the shapes of an image buffer: 2-D, colour,
\* and 3-D of one channel with several rows and columns, with one row and with
\* one column.  Beside grayscale, a step that fails before the operation is
\* called, a disabled step, a normalize step and a deskew step.
GrayscaleImages ==
    { Image(shape, NotFlat, << >>) :
        shape \in { << 2, 3 >>, << 2, 3, 3 >>, << 2, 3, 1 >>, << 1, 3, 1 >>,
                    << 2, 1, 1 >> } }

GrayscalePool ==
    { StepDict("str", "grayscale", PAbsent, "absent"),
      StepDict("str", "grayscale", PNone, "true"),
      StepDict("str", "grayscale", EmptyDict, "false"),
      StepDict("str", "normalize", EmptyDict, "true"),
      StepDict("str", "deskew", EmptyDict, "true") }

GrayscaleInputs ==
    { [kind |-> "list", items |-> s] : s \in SeqsUpTo(GrayscalePool, MaxSteps) }

InitGrayscale ==
    /\ steps \in GrayscaleInputs
    /\ image \in GrayscaleImages
    /\ continue_on_error \in BOOLEAN
    /\ preview_mode = FALSE
    /\ pc = "idle"
    /\ active_steps = << >>
    /\ i = 0
    /\ current_image = image
    /\ errors = << >>
    /\ op_run = NoOp
    /\ j = 0
    /\ agg = NewAggregator
    /\ result = NoResult
    /\ reported = << >>
    /\ calls = << >>
    /\ vres = NotValidated
    /\ now = 1
    /\ fn = << >>
    /\ pair = << >>

SpecGrayscale == InitGrayscale /\ [][Next]_vars

\* Every grayscale call of the run succeeded and left a single-channel image,
\* the image it was given when that had a single channel.
GrayscaleCallsAreNoOps ==
    \A m \in 1..Len(calls) :
        calls[m].op = "grayscale" =>
            /\ agg.steps[calls[m].index + 1].success = "true"
            /\ Channels(ImageAfterCall(m)) = 1
            /\ Channels(calls[m].image) = 1 => ImageAfterCall(m) = calls[m].image

\* C24: grayscale on a single-channel image succeeds and returns it as it is, so
\* a second grayscale step gives the image of the first and both steps are
\* recorded as successful.
C24_GrayscaleIdempotent == Returned => GrayscaleCallsAreNoOps

\* The part of C24 the code does meet: on a caller's image that is 2-D or
\* colour.
C24_IdempotentFrom2DOrColour ==
    (Returned /\ (Len(image.shape) = 2 \/ IsBgr(image))) => GrayscaleCallsAreNoOps

\* A one-row image of one channel: the first grayscale step returns the 1-D
\* squeeze of it, and the second one fails on that.
C24_SecondGrayscaleFails ==
    /\ Returned
    /\ image.shape = << 1, 3, 1 >>
    /\ Len(calls) = 2
    /\ calls[1].op = "grayscale"
    /\ calls[2].op = "grayscale"
    /\ calls[2].image.shape = << 3 >>
    /\ agg.steps[1].success = "true"
    /\ agg.steps[2].success = "false"
    /\ ~result.success

\* execute is sequential code: while a step of it can be taken, one is taken.
SpecLive == Spec /\ WF_vars(Next)

\* A step of the invocation never goes back in the list, and the aggregator's
\* finish is called once, in the step that makes the result.
ForwardAndFinishOnce ==
    [][/\ pc # "idle" => i' >= i
       /\ (agg'.end_time # agg.end_time) => (agg.end_time = -1 /\ pc' = "done")
       /\ (pc # "done" /\ pc' = "done") => agg'.end_time # agg.end_time]_vars

\* C25: for every finite step list execute eventually returns a result; a step
\* is started at most once and never revisited, and finish is called exactly
\* once before the result is returned.
C25_ExecuteTerminates ==
    /\ (pc # "idle") ~> Returned
    /\ ForwardAndFinishOnce

\* The part of C25 the code does meet: execute always ends, by returning or by
\* raising, and it returns whenever no exception leaves it.
C25_ExecuteEnds ==
    /\ (pc # "idle") ~> (Returned \/ pc = "raised")
    /\ ForwardAndFinishOnce

\* The step records of the aggregator with success = False, in order.
FailedRecords == SelectSeq(agg.steps, LAMBDA r : r.success = "false")

\* C27: in every returned result the error entries and the failed step records
\* correspond one to one in the same order, with equal step names and indices,
\* the index being the position among the enabled steps.
C27_ErrorsMatchFailedRecords ==
    Returned =>
        /\ Len(result.errors) = Len(FailedRecords)
        /\ Len(result.errors) =
              Cardinality({ k \in 1..Len(result.progress_info.steps) :
                              result.progress_info.steps[k].success = "false" })
        /\ \A k \in 1..Len(result.errors) :
              /\ k <= Len(FailedRecords)
              /\ result.errors[k].step = FailedRecords[k].step
              /\ result.errors[k].index = FailedRecords[k].index
              /\ ErrorStr(result.errors[k].error) = FailedRecords[k].error
              /\ result.errors[k].index < Len(EnabledSteps)
              /\ result.errors[k].step =
                    StepName(EnabledSteps[result.errors[k].index + 1])

C27_Witness ==
    /\ Returned
    /\ Len(steps.items) = 3
    /\ steps.items[1].enabled = "false"
    /\ Len(result.errors) = 2
    /\ result.errors[1].index = 0
    /\ result.errors[2].index = 1
    /\ result.errors[1].step # result.errors[2].step

\* No step record of the result is in progress, the records carry the
\* indices 0..m-1 and the number of enabled steps as total, and a record has an
\* error exactly when its success is false.
RecordsComplete ==
    /\ Len(result.progress_info.steps) = Len(agg.steps)
    /\ \A k \in 1..Len(agg.steps) :
          /\ result.progress_info.steps[k].success \in {"true", "false"}
          /\ agg.steps[k].success = result.progress_info.steps[k].success
          /\ agg.steps[k].index = k - 1
          /\ agg.steps[k].total = Len(EnabledSteps)
          /\ (result.progress_info.steps[k].error # NoError) =
                (result.progress_info.steps[k].success = "false")

\* C28: in every returned result no step record is in progress, the records
\* carry the indices 0..m-1 and the number of enabled steps as total, a record
\* has an error exactly when its success is false, and the image of the result
\* is not None.
C28_ReturnedRecordsComplete ==
    Returned => (RecordsComplete /\ ~result.image.none)

\* C28 with the image the code returns: the records are complete, and the
\* image of the result is None exactly when the caller's image is None, which
\* execute returns as it is when no step is enabled.
C28_RecordsCompleteImageNoneOnlyFromCaller ==
    Returned =>
        /\ RecordsComplete
        /\ result.image.none <=> image.none
        /\ image.none => (EnabledSteps = << >> /\ result.progress_info.steps = << >>)

\* execute(None, steps) with no enabled step returns image = None.
C28_NoneImageReturned ==
    /\ Returned
    /\ image.none
    /\ result.image.none
    /\ result.success
    /\ Len(steps.items) = 1

\* A step that failed with an empty str(e) has the empty string, not None, as
\* the error of its record.
C28_EmptyMessageIsAnError ==
    (Returned /\ fn.raised_in >= 0 /\ fn.exc = "Exception" /\ fn.msg = "") =>
        /\ RecordsComplete
        /\ result.progress_info.steps[fn.raised_in + 1].success = "false"
        /\ result.progress_info.steps[fn.raised_in + 1].error = ErrorStr("")

C28_Witness ==
    /\ Returned
    /\ continue_on_error
    /\ Len(agg.steps) = 3
    /\ agg.steps[1].success = "true"
    /\ agg.steps[2].success = "false"
    /\ agg.steps[3].success = "true"

-----------------------------------------------------------------------------
(* Preview mode: requests built from denoise steps *)

\* Longest step list of a preview request.
MaxPreviewSteps == 2

\* The step-list elements of the preview requests: denoise with each method,
\* with the method omitted, with a strength below and above 10, with a
\* strength that is a string, NaN or an infinity; one step of another
\* operation.
PreviewPool ==
    { StepDict("str", "denoise", PDict("nlm", IntStrength(20)), "true"),
      StepDict("str", "denoise", PDict("nlm", IntStrength(5)), "true"),
      StepDict("str", "denoise", PDict("nlm", NoStrength), "absent"),
      StepDict("str", "denoise", EmptyDict, "true"),
      StepDict("str", "denoise", PDict("bilateral", IntStrength(20)), "true"),
      StepDict("str", "denoise", PDict("gaussian", NoStrength), "true"),
      StepDict("str", "denoise", PDict("nlm", StrStrength), "true"),
      StepDict("str", "denoise", PDict("nlm", NaNStrength), "true"),
      StepDict("str", "denoise", PDict("nlm", InfStrength(-1)), "true"),
      StepDict("str", "denoise", PDict("nlm", InfStrength(1)), "true"),
      StepDict("str", "denoise", PDict("gaussian", DigitsStrength(5)), "true"),
      StepDict("str", "denoise", PDict("bilateral", DigitsStrength(5)), "true"),
      StepDict("str", "denoise", PDict("gaussian", NaNStrength), "true"),
      StepDict("str", "normalize", PDict("absent", IntStrength(20)), "true") }

PreviewInputs ==
    { [kind |-> "list", items |-> s] : s \in SeqsUpTo(PreviewPool, MaxPreviewSteps) }

\* The images of the preview requests: 2-D, colour, 3-D of one channel and of
\* four.
PreviewImages ==
    Images \cup { Image(<< 2, 3, 1 >>, NotFlat, << >>),
                  Image(<< 2, 3, 4 >>, NotFlat, << >>) }

InitPreview ==
    /\ steps \in PreviewInputs
    /\ image \in PreviewImages
    /\ continue_on_error \in BOOLEAN
    /\ preview_mode \in BOOLEAN
    /\ pc = "idle"
    /\ active_steps = << >>
    /\ i = 0
    /\ current_image = image
    /\ errors = << >>
    /\ op_run = NoOp
    /\ j = 0
    /\ agg = NewAggregator
    /\ result = NoResult
    /\ reported = << >>
    /\ calls = << >>
    /\ vres = NotValidated
    /\ now = 1
    /\ fn = << >>
    /\ pair = << >>

SpecPreview == InitPreview /\ [][Next]_vars

\* The parameters step number c.index was declared with.
Declared(c) == EnabledSteps[c.index + 1].params

\* StepOutcome, RefApply and RefFailing for a given preview flag.
StepOutcomeIn(img, step, preview) ==
    IF get_operation(step.op_kind, step.op) # "func"
    THEN [ok |-> FALSE, out |-> img]
    ELSE LET prep == PrepareParams(step, preview)
         IN  IF prep.raises THEN [ok |-> FALSE, out |-> img]
             ELSE LET o == OpRun(step.op, img, prep.params)
                  IN  [ok |-> o.ok, out |-> o.out]

RECURSIVE RefApplyIn(_, _, _, _)
RefApplyIn(img, seq, n, preview) ==
    IF n = 0 THEN img
    ELSE LET prev == RefApplyIn(img, seq, n - 1, preview)
             o == StepOutcomeIn(prev, seq[n], preview)
         IN  IF o.ok THEN o.out ELSE prev

RefFailingIn(img, seq, preview) ==
    { n - 1 : n \in { m \in 1..Len(seq) :
          ~StepOutcomeIn(RefApplyIn(img, seq, m - 1, preview), seq[m], preview).ok } }

\* The method denoise_image runs for the declared parameters d: 'nlm' when the
\* method is omitted.
EffectiveMethod(d) == IF d.method = "absent" THEN "nlm" ELSE d.method

\* min(strength, 10) of a declared strength, 10 standing for an omitted one:
\* the smaller number, 10 for +inf; -inf and NaN, which Python's min returns
\* when given first, are what the call receives.
MinOfStrengthAnd10(strength) ==
    IF strength.t \in {"absent", "int"}
    THEN IntStrength(Min(IF strength.t = "absent" THEN 10 ELSE strength.v, 10))
    ELSE IF strength.t = "inf" /\ strength.v > 0 THEN IntStrength(10)
    ELSE strength

\* C11: in preview mode every denoise step whose method is nlm, given or taken
\* as the default of an omitted method, is called with method=bilateral and
\* strength=min(strength, 10); with preview mode off every call receives the
\* parameters as declared.
C11_PreviewSubstitutesNlm ==
    \A m \in 1..Len(calls) :
        LET c == calls[m]
            d == Declared(c)
        IN  /\ (preview_mode /\ c.op = "denoise" /\ EffectiveMethod(d) = "nlm") =>
                  /\ c.params.method = "bilateral"
                  /\ c.params.strength = MinOfStrengthAnd10(d.strength)
            /\ ~preview_mode => c.params = d

\* The part of C11 the code does meet: the substitution of a method given as nlm.
C11_ExplicitNlmSubstituted ==
    \A m \in 1..Len(calls) :
        LET c == calls[m]
            d == Declared(c)
        IN  /\ (preview_mode /\ c.op = "denoise" /\ d.method = "nlm") =>
                  /\ c.params.method = "bilateral"
                  /\ c.params.strength = MinOfStrengthAnd10(d.strength)
            /\ ~preview_mode => c.params = d

\* The errors and the success of a returned run are those of the same run
\* with preview mode off.
PreviewSilent ==
    Returned =>
        LET off == RefFailingIn(image, EnabledSteps, FALSE)
        IN  /\ { result.errors[k].index : k \in 1..Len(result.errors) } =
                   IF continue_on_error \/ off = {} THEN off ELSE {SetMin(off)}
            /\ result.success = (off = {})

\* The caller's params mappings hold what was declared, and every call of an
\* operation other than denoise, or of denoise with method bilateral or
\* gaussian, receives the declared parameters.
PreviewLocal ==
    /\ pc \in {"loop", "op", "done"} => active_steps = EnabledSteps
    /\ \A m \in 1..Len(calls) :
          LET c == calls[m]
          IN  (c.op # "denoise" \/ Declared(c).method \in {"bilateral", "gaussian"})
                  => c.params = Declared(c)

NlmOnlyStrength(step) ==
    /\ step.op = "denoise"
    /\ step.params.kind = "dict"
    /\ step.params.method = "nlm"
    /\ \/ step.params.strength.t = "nan"
       \/ step.params.strength.t = "inf" /\ step.params.strength.v < 0

SubstitutionTellsApart ==
    \/ \E k \in 1..Len(EnabledSteps) : NlmOnlyStrength(EnabledSteps[k])
    \/ Len(image.shape) = 3 /\ Channels(image) \in {1, 4}

C12_PreviewAddsError ==
    /\ Returned
    /\ preview_mode
    /\ ~image.none /\ Len(image.shape) = 2
    /\ Len(EnabledSteps) = 1
    /\ EnabledSteps[1].params = PDict("nlm", NaNStrength)
    /\ ~result.success
    /\ Len(result.errors) = 1
    /\ RefFailingIn(image, EnabledSteps, FALSE) = {}

-----------------------------------------------------------------------------
(* progress.py: ProgressCallback on its own *)

\* The state of the executor while a function of the package is studied alone.
NoInvocation ==
    /\ steps = [kind |-> "list", items |-> << >>]
    /\ image = GrayImage
    /\ continue_on_error = TRUE
    /\ preview_mode = FALSE
    /\ pc = "off"
    /\ active_steps = << >>
    /\ i = 0
    /\ current_image = image
    /\ errors = << >>
    /\ op_run = NoOp
    /\ j = 0
    /\ agg = NewAggregator
    /\ result = NoResult
    /\ reported = << >>
    /\ calls = << >>
    /\ vres = NotValidated
    /\ now = 1

\* ProgressCallback.__init__; `sent` lists the values the callback was called with.
NewProgressCallback(step_name, step_index, total_steps) ==
    [step_name |-> step_name, step_index |-> step_index,
     total_steps |-> total_steps, history |-> << >>, sent |-> << >>]

\* ProgressCallback.__call__(percent)
ProgressCallbackCall(cb, percent) ==
    [cb EXCEPT !.history = Append(@, ProgressInfo(cb.step_name, cb.step_index,
                                                   cb.total_steps, percent)),
               !.sent = Append(@, percent)]

\* Within-step values in hundredths: inside [0, 1], below 0 and above 1.
WithinStepValues == {-250, -1, 0, 10, 50, 100, 101, 1000}

\* Positions and lengths of pipelines: the short ones, and the last step of
\* the shortest pipeline that does not end at 100.
StepIndexes == (0..MaxIndex) \cup {48}
TotalSteps == (0..MaxTotal) \cup {49}

InitPercent ==
    /\ NoInvocation
    /\ fn \in { NewProgressCallback("denoise", si, ts) :
                   si \in StepIndexes, ts \in TotalSteps }
    /\ pair = << >>

Report ==
    /\ Len(fn.history) < MaxReports
    /\ \E p \in WithinStepValues : fn' = ProgressCallbackCall(fn, p)
    /\ UNCHANGED <<execvars, pair>>

NextPercent == Report

SpecPercent == InitPercent /\ [][NextPercent]_vars

\* The float that the expression (step_index + percent) / total_steps * 100
\* gives in binary64, clamped to [0, 100], for total_steps > 0.
QuotientPercent(step_index, total_steps, p) ==
    LET n == step_index * 100 + p
        hi == 100 * total_steps
        c == IF n < 0 THEN 0 ELSE IF n > hi THEN hi ELSE n
        s == StepPlusPercent(step_index, p)
        v == Float64Op("scaled", Float64Op("over", s.val, total_steps, 0), 100, 0)
    IN  IF ~s.pos THEN Percent(0, total_steps)
        ELSE [n |-> c, d |-> total_steps,
              ulp |-> Float64Op("places", Float64Min100(v),
                                Float64Quotient(c, total_steps), 0)]

\* C16: for total_steps > 0 the percent of every ProgressInfo is
\* (step_index + p) / total_steps * 100 clamped to [0, 100], whatever p is
\* (the binary64 nearest to that number, or the float the expression gives); a
\* whole step (p from 0 to 1) inside the range moves it by 100 / total_steps.
\* (Violated at the end of step 48 of 49, where the code delivers
\* 99.99999999999999 and the quotient is 100, and at step 1 of 3 with
\* p = -0.01, where it delivers 32.99999999999999 and the quotient is 33.)
C16_OverallPercentLinearClamped ==
    fn.total_steps > 0 =>
        /\ \A k \in 1..Len(fn.history) :
              LET x == fn.step_index * 100 + fn.sent[k]
                  pct == fn.history[k].percent
              IN  /\ x < 0 => PctEq(pct, Percent(0, 1))
                  /\ x > 100 * fn.total_steps => PctEq(pct, Hundred)
                  /\ (0 <= x /\ x <= 100 * fn.total_steps) =>
                        \/ PctEq(pct, Percent(x, fn.total_steps))
                        \/ pct = QuotientPercent(fn.step_index, fn.total_steps,
                                                 fn.sent[k])
        /\ \A k, m \in 1..Len(fn.history) :
              (fn.sent[k] = 0 /\ fn.sent[m] = 100 /\ fn.step_index < fn.total_steps) =>
                  LET a == fn.history[k].percent
                      b == fn.history[m].percent
                  IN  (b.n * a.d - a.n * b.d) * fn.total_steps = 100 * a.d * b.d

C16_Witness ==
    /\ fn.step_index = 2
    /\ fn.total_steps = 3
    /\ fn.sent = <<-250, 1000>>
    /\ PctEq(fn.history[1].percent, Percent(0, 1))
    /\ PctEq(fn.history[2].percent, Hundred)

-----------------------------------------------------------------------------
(* pipeline.py: two invocations of run_pipeline in flight together *)

\* The arguments of one call run_pipeline(image, steps, ...).
Request(items, img, coe, preview) ==
    [steps |-> [kind |-> "list", items |-> items],
     image |-> img,
     continue_on_error |-> coe, preview_mode |-> preview]

PairRequests ==
    { Request(<< StepDict("str", "normalize", EmptyDict, "true"),
                 StepDict("str", "denoise", PDict("nlm", IntStrength(20)), "true") >>,
              ColorImage, FALSE, TRUE),
      Request(<< StepDict("str", "grayscale", PNone, "true"),
                 StepDict("str", "normalize", EmptyDict, "true") >>,
              ColorImage, TRUE, FALSE),
      Request(<< StepDict("str", "normalize", PDict("absent", StrStrength), "absent"),
                 StepDict("str", "grayscale", PAbsent, "absent") >>,
              GrayImage, TRUE, FALSE),
      Request(<< StepDict("str", "bogus", EmptyDict, "true"),
                 StepDict("str", "grayscale", PAbsent, "absent") >>,
              GrayImage, FALSE, FALSE),
      Request(<< StepDict("str", "bogus", EmptyDict, "false") >>, GrayImage, FALSE, FALSE) }

\* The locals of one call of run_pipeline and the executor it constructed.
Context ==
    [steps |-> steps, image |-> image, continue_on_error |-> continue_on_error,
     preview_mode |-> preview_mode, pc |-> pc, active_steps |-> active_steps,
     i |-> i, current_image |-> current_image, errors |-> errors,
     op_run |-> op_run, j |-> j, agg |-> agg, result |-> result,
     reported |-> reported, calls |-> calls, vres |-> vres, now |-> now]

\* run_pipeline, lines 241-244: a new PipelineExecutor, not yet executing.
FreshContext(r) ==
    [steps |-> r.steps, image |-> r.image,
     continue_on_error |-> r.continue_on_error, preview_mode |-> r.preview_mode,
     pc |-> "idle", active_steps |-> << >>, i |-> 0, current_image |-> r.image,
     errors |-> << >>, op_run |-> NoOp, j |-> 0, agg |-> NewAggregator,
     result |-> NoResult, reported |-> << >>, calls |-> << >>,
     vres |-> NotValidated, now |-> 1]

ResumedAggregatorShared(saved, current) == current

\* self.aggregator of the executor that resumes: the one its own __init__ made.
ResumedAggregator(saved, current) == saved

\* Control passes to the invocation whose locals are c; `now` numbers the clock
\* readings of the invocation in control.
Resume(c, a) ==
    /\ steps' = c.steps
    /\ image' = c.image
    /\ continue_on_error' = c.continue_on_error
    /\ preview_mode' = c.preview_mode
    /\ pc' = c.pc
    /\ active_steps' = c.active_steps
    /\ i' = c.i
    /\ current_image' = c.current_image
    /\ errors' = c.errors
    /\ op_run' = c.op_run
    /\ j' = c.j
    /\ agg' = a
    /\ result' = c.result
    /\ reported' = c.reported
    /\ calls' = c.calls
    /\ vres' = c.vres
    /\ now' = c.now

\* What the claim compares of a PipelineResult: image, success, error list, step
\* outcomes and final percent.
ResultView(res) ==
    [image |-> res.image, success |-> res.success, errors |-> res.errors,
     steps |-> [k \in 1..Len(res.progress_info.steps) |->
                  [step |-> res.progress_info.steps[k].step,
                   success |-> res.progress_info.steps[k].success,
                   error |-> res.progress_info.steps[k].error]],
     final_percent |-> res.progress_info.final_percent]

Running(c) == c.pc \in {"loop", "op"}

InitPair ==
    /\ \E r1, r2 \in PairRequests :
          /\ pair = [req |-> <<r1, r2>>, phase |-> "alone", running |-> 1,
                     other |-> FreshContext(r2),
                     alone |-> <<ResultView(NoResult), ResultView(NoResult)>>,
                     switches |-> 0]
          /\ steps = r1.steps
          /\ image = r1.image
          /\ continue_on_error = r1.continue_on_error
          /\ preview_mode = r1.preview_mode
    /\ pc = "idle"
    /\ active_steps = << >>
    /\ i = 0
    /\ current_image = image
    /\ errors = << >>
    /\ op_run = NoOp
    /\ j = 0
    /\ agg = NewAggregator
    /\ result = NoResult
    /\ reported = << >>
    /\ calls = << >>
    /\ vres = NotValidated
    /\ now = 1
    /\ fn = << >>

\* An invocation made alone has returned: keep its result and make the next
\* call; after both, make the two calls again, this time together.
ReturnedAlone ==
    /\ pair.phase = "alone"
    /\ pc = "done"
    /\ LET kept == [pair.alone EXCEPT ![pair.running] = ResultView(result)]
       IN  IF pair.running = 1
           THEN /\ pair' = [pair EXCEPT !.alone = kept, !.running = 2]
                /\ Resume(FreshContext(pair.req[2]), NewAggregator)
           ELSE /\ pair' = [pair EXCEPT !.alone = kept, !.running = 1,
                                        !.phase = "together",
                                        !.other = FreshContext(pair.req[2])]
                /\ Resume(FreshContext(pair.req[1]), NewAggregator)
    /\ UNCHANGED fn

\* The scheduler passes control from one invocation to the other.
Switch ==
    /\ pair.phase = "together"
    /\ pc # "done" \/ pair.other.pc # "done"
    /\ pair' = [pair EXCEPT
                  !.other = Context,
                  !.running = 3 - pair.running,
                  !.switches = IF Running(Context) /\ Running(pair.other) /\ @ < 2
                               THEN @ + 1 ELSE @]
    /\ Resume(pair.other, ResumedAggregator(pair.other.agg, agg))
    /\ UNCHANGED fn

NextPair ==
    \/ Execute
    \/ StepStart
    \/ OpProgress
    \/ OpReturn
    \/ OpRaise
    \/ Finish
    \/ ReturnedAlone
    \/ Switch

SpecPair == InitPair /\ [][NextPair]_vars

\* C17: of two invocations of run_pipeline interleaved in any way, each returns
\* the image, success, error list, step outcomes and final percent it returns
\* when it runs alone.
C17_InterleavedInvocationsIndependent ==
    pair.phase = "together" =>
        /\ pc = "done" => ResultView(result) = pair.alone[pair.running]
        /\ pair.other.pc = "done" =>
              ResultView(pair.other.result) = pair.alone[3 - pair.running]

C17_Witness ==
    /\ pair.phase = "together"
    /\ pair.switches = 2
    /\ pc = "done"
    /\ pair.other.pc = "done"
    /\ result.success
    /\ ~pair.other.result.success
    /\ Len(pair.other.result.errors) = 1
    /\ Len(pair.other.result.progress_info.steps) = 2

-----------------------------------------------------------------------------
(* operations.py: deskew_image on its own *)

NotCalled ==
    [prog |-> << >>, ok |-> FALSE,
     out |-> NoneImage,
     err |-> "", contour |-> NoAngle, used_hough |-> FALSE, chosen |-> Angle(0),
     angle |-> Angle(0), rotated |-> FALSE]

\* minAreaRect angles: none, the ends of the range, both sides of +-45 and of
\* the clamp, angles around 0.1 degrees, and angles that are 0.1, 0.05 and
\* 0.01 degrees away from +-90.
RectAngles ==
    {NoAngle} \cup { Angle(v) : v \in {-9000, -8999, -8990, -8000, -4501, -4500,
                                       -4000, -1500, -10, -9, 0, 9, 10, 500,
                                       1500, 1501, 4000, 4500, 4501, 8990,
                                       8995, 9000} }

\* Medians of near-horizontal Hough lines (below 45 degrees in magnitude).
HoughAngles ==
    {NoAngle} \cup { Angle(v) : v \in {-4499, -1501, -9, 0, 10, 1200, 4000, 4499} }

\* params["maxAngle"]: the default 15, other bounds, 0.01, 0 and a negative
\* number.
MaxAngles == {-500, 0, 1, 5, 1500, 4500, 9000}

InitDeskew ==
    /\ NoInvocation
    /\ pair = << >>
    /\ \E img \in Images, rect \in RectAngles, hough \in HoughAngles,
          max_angle \in MaxAngles :
          fn = [img |-> img, rect |-> rect, hough |-> hough,
                max_angle |-> max_angle, called |-> FALSE, ret |-> NotCalled]

Deskew ==
    /\ ~fn.called
    /\ fn' = [fn EXCEPT !.called = TRUE,
                        !.ret = deskew_image(fn.img, fn.rect, fn.hough, fn.max_angle)]
    /\ UNCHANGED <<execvars, pair>>

NextDeskew == Deskew

SpecDeskew == InitDeskew /\ [][NextDeskew]_vars

\* C18 as stated: for every candidate angle and every maxAngle the rotation
\* applied has magnitude at most maxAngle.
C18_RotationWithinMaxAngle ==
    (fn.called /\ fn.ret.rotated) =>
        ~AngleLess(Angle(fn.max_angle), AbsAngle(fn.ret.angle))

\* The part of C18 the code does meet: with a maxAngle that is not negative the
\* rotation applied has magnitude at most maxAngle.
C18_RotationWithinNonNegativeMaxAngle ==
    (fn.called /\ fn.max_angle >= 0) =>
        /\ ~AngleLess(Angle(fn.max_angle), AbsAngle(fn.ret.angle))
        /\ ~fn.ret.rotated => fn.ret.out = fn.img

\* C20: the contour candidate is used unless it is missing or larger in
\* magnitude than maxAngle, and then the Hough candidate replaces it; a missing
\* chosen candidate gives angle 0; a clamped angle below 0.1 degrees in
\* magnitude returns the input image without rotating.  The candidate is the
\* float the estimator returns: the raw angle, or the raw angle moved by 90
\* degrees, which lies beside the decimal sum where the raw angle's float does.
C20_DeskewAngleSelection ==
    fn.called =>
        LET contour == fn.ret.contour
            side == IF contour.e < 0 THEN -1 ELSE IF contour.e > 0 THEN 1 ELSE 0
            \* |contour| > maxAngle, decided by the side at equal hundredths
            larger == \/ Abs(contour.v) > fn.max_angle
                      \/ /\ Abs(contour.v) = fn.max_angle
                         /\ (IF contour.v < 0 THEN -side ELSE side) > 0
            replaced == ~contour.some \/ larger
            candidate == IF replaced THEN fn.hough ELSE contour
            below == \/ Abs(fn.ret.angle.v) < 10
                     \/ /\ Abs(fn.ret.angle.v) = 10
                        /\ (IF fn.ret.angle.v < 0 THEN -fn.ret.angle.e
                                                  ELSE fn.ret.angle.e) < 0
        IN  /\ contour.some = fn.rect.some
            /\ contour.some =>
                  contour.v = IF fn.rect.v < -4500 THEN fn.rect.v + 9000
                              ELSE IF fn.rect.v > 4500 THEN fn.rect.v - 9000
                              ELSE fn.rect.v
            /\ fn.ret.used_hough = replaced
            /\ fn.ret.chosen = IF candidate.some THEN candidate ELSE Angle(0)
            /\ below => (~fn.ret.rotated /\ fn.ret.out = fn.img)
            /\ ~below => fn.ret.rotated

C20_Witness ==
    /\ fn.called
    /\ fn.rect = Angle(4000)
    /\ fn.hough = Angle(-9)
    /\ fn.max_angle = 1500
    /\ fn.ret.used_hough
    /\ fn.ret.chosen = Angle(-9)
    /\ ~fn.ret.rotated
    /\ fn.ret.out = fn.img

-----------------------------------------------------------------------------
(* operations.py: the Sauvola threshold on its own *)

\* R, the maximum standard deviation for 8-bit images
R == 128

SauvolaThresholdInverted(mean, std, k) == mean * (10 * R + k * (R - std))

\* _sauvola_threshold, line 536: threshold = mean * (1.0 + k * (std / R - 1.0)),
\* with k in tenths; the value is the threshold times 10 * R.
SauvolaThreshold(mean, std, k) == mean * (10 * R + k * (std - R))

\* Local means and standard deviations of 8-bit pixels, and values of
\* params["k"] in tenths: the default 0.5, 0, other positive values and a
\* negative one.
LocalMeans == {0, 1, 100, 255}
LocalStds == {0, 1, 64, 127, 128}
SauvolaKs == {-5, 0, 2, 5, 10}
WindowSizes == {3, 15}

InitSauvola ==
    /\ NoInvocation
    /\ pair = << >>
    /\ \E w \in WindowSizes, k \in SauvolaKs, mean \in LocalMeans :
          fn = [window_size |-> w, k |-> k, mean |-> mean, pixels |-> << >>]

\* The threshold map at one more pixel, whose window has deviation std.
ThresholdPixel ==
    /\ Len(fn.pixels) < MaxPixels
    /\ \E std \in LocalStds :
          fn' = [fn EXCEPT !.pixels =
                    Append(@, [std |-> std,
                               threshold |-> SauvolaThreshold(fn.mean, std, fn.k)])]
    /\ UNCHANGED <<execvars, pair>>

NextSauvola == ThresholdPixel

SpecSauvola == InitSauvola /\ [][NextSauvola]_vars

\* C19 as stated: for a fixed window, k and local mean, a larger local
\* standard deviation never gives a smaller threshold.
C19_ThresholdMonotoneInStd ==
    \A a, b \in 1..Len(fn.pixels) :
        fn.pixels[a].std <= fn.pixels[b].std =>
            fn.pixels[a].threshold <= fn.pixels[b].threshold

\* C19 amended: for a fixed window, a fixed k >= 0 and a fixed local mean, a
\* larger local standard deviation never gives a smaller threshold.
C19_ThresholdMonotoneForNonNegativeK ==
    fn.k >= 0 =>
        \A a, b \in 1..Len(fn.pixels) :
            fn.pixels[a].std <= fn.pixels[b].std =>
                fn.pixels[a].threshold <= fn.pixels[b].threshold

C19_Witness ==
    /\ fn.k = 5
    /\ fn.mean = 100
    /\ Len(fn.pixels) = 2
    /\ fn.pixels[1].std = 1
    /\ fn.pixels[2].std = 127
    /\ fn.pixels[1].threshold < fn.pixels[2].threshold

\* C21: for every raw minimum-area-rectangle angle in [-90, 90] degrees the
\* contour candidate after normalization lies in (-45, 45]; a raw angle of
\* exactly -45 is not returned as -45.
C21_ContourCandidateInHalfOpenRange ==
    (fn.called /\ fn.rect.some /\ Abs(fn.rect.v) <= 9000) =>
        /\ fn.ret.contour.some
        /\ -4500 < fn.ret.contour.v
        /\ fn.ret.contour.v <= 4500

\* The part of C21 the code does meet: every raw angle other than -45 is
\* normalized into (-45, 45].
C21_RangeExceptMinus45 ==
    (fn.called /\ fn.rect.some /\ Abs(fn.rect.v) <= 9000 /\ fn.rect.v # -4500) =>
        /\ fn.ret.contour.some
        /\ -4500 < fn.ret.contour.v
        /\ fn.ret.contour.v <= 4500

-----------------------------------------------------------------------------
(* operations.py: kernel and window sizes *)

\* threshold_image, line 465: block_size = max(3, int(block_size) | 1)
BlockSize(block_size) == Max(3, OrOne(block_size))

\* sharpen_image, line 403: ksize = max(3, int(radius * 2) | 1), for a radius
\* given as its double (radius a multiple of 0.5).
SharpenKsize(radius2) == Max(3, OrOne(radius2))

InitKernel ==
    /\ NoInvocation
    /\ pair = << >>
    /\ \E v \in -MaxParam..MaxParam :
          fn = [value |-> v, op |-> "", size |-> 0]

DenoiseGaussian ==
    /\ fn.op = ""
    /\ fn' = [fn EXCEPT !.op = "denoise", !.size = GaussianKsize(fn.value)]
    /\ UNCHANGED <<execvars, pair>>

ThresholdBlock ==
    /\ fn.op = ""
    /\ fn' = [fn EXCEPT !.op = "threshold", !.size = BlockSize(fn.value)]
    /\ UNCHANGED <<execvars, pair>>

\* The radius is an integer: its double is even.
SharpenKernel ==
    /\ fn.op = ""
    /\ fn.value % 2 = 0
    /\ fn' = [fn EXCEPT !.op = "sharpen", !.size = SharpenKsize(fn.value)]
    /\ UNCHANGED <<execvars, pair>>

NextKernel ==
    \/ DenoiseGaussian
    \/ ThresholdBlock
    \/ SharpenKernel

SpecKernel == InitKernel /\ [][NextKernel]_vars

\* C22: for every integer parameter, zero, even and negative values included,
\* the Gaussian denoise kernel, the threshold block size and the sharpen kernel
\* are odd and at least 3.
C22_KernelSizesOddAtLeast3 ==
    fn.op # "" => (fn.size % 2 = 1 /\ fn.size >= 3)

C22_Witness ==
    /\ fn.op = "denoise"
    /\ fn.value = 8
    /\ fn.size = 9

-----------------------------------------------------------------------------
(* operations.py: sharpen_image on one sample *)

\* cv2.addWeighted on float32 arrays works in binary32: both weights are
\* rounded to binary32, and so is what the kernel computes of them.  The
\* kernel is v_fma(a, alpha, v_fma(b, beta, gamma)) on the vector lanes and a
\* multiply-add on the samples left over: where the build has a fused
\* multiply-add, a * alpha enters the sum unrounded; elsewhere both products
\* and their sum are rounded one by one.  Which of the two a sample gets
\* depends on the build and on the place of the sample in its row.
\* A binary32 magnitude is held as i + f / 2^30 with 0 <= f < 2^30, which is
\* exact for every binary32 between 2^-7 and 2^22, for the product of a sample
\* and a weight, and for the differences of two of these.
\* The distance of neighbouring binary32 values around int + frac / 2^30, in
\* units of 2^-30: the significand has 24 bits.
Spacing(int, frac) ==
    IF int >= 1 THEN Pow2(7 + Log2(int))
    ELSE IF frac >= Pow2(24) THEN Pow2(Log2(frac) - 23)
    ELSE 1

\* The binary32 nearest to int + (frac + num / den) / 2^30, where
\* 0 <= num < den: round to nearest, ties to the even significand.
Float32(int, frac, num, den) ==
    LET q == Spacing(int, frac)
        low == frac % q
        base == frac - low
        twice == 2 * (low * den + num)
        up == \/ twice > q * den
              \/ twice = q * den /\ (base \div q) % 2 = 1
        g == IF up THEN base + q ELSE base
    IN  IF g >= Pow2(30) THEN [i |-> int + 1, f |-> 0] ELSE [i |-> int, f |-> g]

\* The binary32 of the Python float n / 100.0 (the binary64 in between does
\* not change the result for n up to 400).
Float32OfHundredths(n) ==
    LET rem == n % 100
        per == Pow2(30) \div 100
        left == Pow2(30) % 100
    IN  Float32(n \div 100, rem * per + ((rem * left) \div 100),
                (rem * left) % 100, 100)

\* The product of the sample x (0..255, exact in binary32) and the weight w,
\* unrounded, computed on the two 15-bit halves of w.f.
Times(x, w) ==
    LET half == Pow2(15)
        hi == w.f \div half
        lo == w.f % half
        mid == x * hi + ((x * lo) \div half)
    IN  [i |-> x * w.i + (mid \div half),
         f |-> (mid % half) * half + ((x * lo) % half)]

\* The binary32 product of x and w.
Float32Times(x, w) == Float32(Times(x, w).i, Times(x, w).f, 0, 1)

\* The binary32 of big - small, for big >= small >= 0.
Float32Minus(big, small) ==
    LET borrow == IF big.f < small.f THEN 1 ELSE 0
    IN  Float32(big.i - small.i - borrow,
                big.f - small.f + borrow * Pow2(30), 0, 1)

\* sharpened = cv2.addWeighted(img, 1.0 + amount, blurred, -amount, 0) at one
\* sample, for params["amount"] = amount_param (amount = amount_param / 100.0,
\* 0 < amount_param <= 300): a binary32 of magnitude i + f / 2^30, `neg`
\* telling that it is below 0.  `fused` tells that the sample is computed by a
\* fused multiply-add.
Sharpened(sample, blurred, amount_param, fused) ==
    LET alpha == Float32OfHundredths(100 + amount_param)
        p == IF fused THEN Times(sample, alpha) ELSE Float32Times(sample, alpha)
        m == Float32Times(blurred, Float32OfHundredths(amount_param))
        below == p.i < m.i \/ (p.i = m.i /\ p.f < m.f)
        d == IF below THEN Float32Minus(m, p) ELSE Float32Minus(p, m)
    IN  [neg |-> below, i |-> d.i, f |-> d.f]

\* np.clip(sharpened, 0, 255)
Clip(x) ==
    IF x.neg THEN [neg |-> FALSE, i |-> 0, f |-> 0]
    ELSE IF x.i >= 255 THEN [neg |-> FALSE, i |-> 255, f |-> 0]
    ELSE x

\* sharpen_image at one sample of the image, `blurred` being the sample of the
\* Gaussian blur at the same place: np.clip(...).astype(np.uint8) drops the
\* fraction of the clipped binary32.  `fused` is the way the build computes
\* this sample.
sharpen_image(sample, blurred, amount_param, fused) ==
    IF amount_param <= 0
    THEN [prog |-> <<10, 100>>, blur_made |-> FALSE, out |-> sample]
    ELSE [prog |-> <<10, 30, 60, 100>>, blur_made |-> TRUE,
          out |-> Clip(Sharpened(sample, blurred, amount_param, fused)).i]

\* 8-bit samples of the image and of its blur, and values of params["amount"].
Samples == {0, 1, 5, 100, 128, 200, 254, 255}
BlurredSamples == {0, 45, 50, 101, 128, 255}
Amounts == {-10, 0, 1, 30, 50, 100}

InitSharpen ==
    /\ NoInvocation
    /\ pair = << >>
    /\ \E x \in Samples, b \in BlurredSamples, a \in Amounts :
          fn = [sample |-> x, blurred |-> b, amount |-> a, called |-> FALSE,
                fused |-> FALSE,
                ret |-> [prog |-> << >>, blur_made |-> FALSE, out |-> 0]]

\* One call of sharpen_image, seen at one sample: the sample is computed in
\* one of the two ways the build has.
Sharpen ==
    /\ ~fn.called
    /\ \E fused \in BOOLEAN :
          fn' = [fn EXCEPT !.called = TRUE,
                           !.fused = fused,
                           !.ret = sharpen_image(fn.sample, fn.blurred,
                                                 fn.amount, fused)]
    /\ UNCHANGED <<execvars, pair>>

NextSharpen == Sharpen

SpecSharpen == InitSharpen /\ [][NextSharpen]_vars

\* clip(image*(1+amount/100) - blurred*(amount/100), 0, 255) in real numbers,
\* in hundredths.
ClippedMask(sample, blurred, amount_param) ==
    Max(0, Min(25500, sample * (100 + amount_param) - blurred * amount_param))

\* C23 as stated: amount 0 returns the input unchanged without blurring, and
\* for amount in (0, 100] every output sample equals
\* clip(image*(1+amount/100) - blurred*(amount/100), 0, 255) and so lies in
\* [0, 255].
C23_SharpenEqualsClippedMask ==
    fn.called =>
        /\ fn.amount = 0 => (fn.ret.out = fn.sample /\ ~fn.ret.blur_made)
        /\ (0 < fn.amount /\ fn.amount <= 100) =>
              /\ fn.ret.out * 100 = ClippedMask(fn.sample, fn.blurred, fn.amount)
              /\ 0 <= fn.ret.out /\ fn.ret.out <= 255

\* What the code does meet of C23: amount 0 returns the input unchanged
\* without blurring, and for amount in (0, 100] every output sample is an
\* integer in [0, 255], not above the clipped mask and less than 1 below it,
\* or exactly 1 below it.
C23_SharpenWithinOneOfClippedMask ==
    fn.called =>
        /\ fn.amount = 0 => (fn.ret.out = fn.sample /\ ~fn.ret.blur_made)
        /\ (0 < fn.amount /\ fn.amount <= 100) =>
              LET c == ClippedMask(fn.sample, fn.blurred, fn.amount)
              IN  /\ fn.ret.out * 100 <= c
                  /\ c <= fn.ret.out * 100 + 100
                  /\ 0 <= fn.ret.out /\ fn.ret.out <= 255
                  /\ fn.ret.blur_made

\* A flat region (sample = blurred = 128) sharpened with amount 30 comes out
\* as 127, fused multiply-add or not.
C23_FlatRegionDarkened ==
    /\ fn.called
    /\ fn.sample = 128
    /\ fn.blurred = 128
    /\ fn.amount = 30
    /\ fn.ret.out = 127

-----------------------------------------------------------------------------
(* pipeline.py: one PipelineExecutor used for two calls of execute *)

\* Step-list elements of the two calls: a step that reports progress, a step
\* that fails after its first report, a step that fails before it reports any,
\* and a disabled step.
ReusePool ==
    { StepDict("str", "normalize", EmptyDict, "true"),
      StepDict("str", "normalize", PDict("absent", StrStrength), "absent"),
      StepDict("str", "grayscale", PNone, "true"),
      StepDict("str", "bogus", EmptyDict, "false") }

ReuseInputs ==
    { [kind |-> "list", items |-> s] : s \in SeqsUpTo(ReusePool, MaxReuseSteps) }

\* fn.run numbers the call of execute on the executor.
InitReuse ==
    /\ steps \in ReuseInputs
    /\ image \in Images
    /\ continue_on_error \in BOOLEAN
    /\ preview_mode = FALSE
    /\ pc = "idle"
    /\ active_steps = << >>
    /\ i = 0
    /\ current_image = image
    /\ errors = << >>
    /\ op_run = NoOp
    /\ j = 0
    /\ agg = NewAggregator
    /\ result = NoResult
    /\ reported = << >>
    /\ calls = << >>
    /\ vres = NotValidated
    /\ now = 1
    /\ fn = [run |-> 1]
    /\ pair = << >>

\* execute has returned and the caller calls it again on the same executor:
\* self.aggregator is the object the first call used.
ExecuteAgain ==
    /\ pc = "done"
    /\ fn.run = 1
    /\ fn' = [run |-> 2]
    /\ steps' \in ReuseInputs
    /\ pc' = "idle"
    /\ active_steps' = << >>
    /\ i' = 0
    /\ current_image' = image
    /\ errors' = << >>
    /\ op_run' = NoOp
    /\ j' = 0
    /\ result' = NoResult
    /\ UNCHANGED <<image, continue_on_error, preview_mode, agg, reported, calls,
                   vres, now, pair>>

NextReuse ==
    \/ Execute
    \/ StepStart
    \/ OpProgress
    \/ OpReturn
    \/ OpRaise
    \/ Finish
    \/ ExecuteAgain

SpecReuse == InitReuse /\ [][NextReuse]_vars

\* C26: the summary an invocation returns reflects only that invocation: its
\* step outcomes are those of its own enabled steps, and its final_percent is
\* the last percent it reported, 0 when it reported none, also on an executor
\* that has run before.
C26_SummaryOfThisInvocationOnly ==
    Returned =>
        /\ Len(result.progress_info.steps) <= Len(EnabledSteps)
        /\ \A k \in 1..Len(result.progress_info.steps) :
              result.progress_info.steps[k].step = StepName(EnabledSteps[k])
        /\ PctEq(result.progress_info.final_percent,
                 IF reported = << >> THEN Percent(0, 1)
                 ELSE reported[Len(reported)])

\* The part of C26 the code does meet: the step outcomes of a later invocation
\* are its own, and so is its final_percent once it has reported progress.
C26_StepOutcomesOfThisInvocationOnly ==
    Returned =>
        /\ Len(result.progress_info.steps) <= Len(EnabledSteps)
        /\ \A k \in 1..Len(result.progress_info.steps) :
              result.progress_info.steps[k].step = StepName(EnabledSteps[k])
        /\ reported # << >> =>
              result.progress_info.final_percent = reported[Len(reported)]

-----------------------------------------------------------------------------
(* pipeline.py: an on_progress callback that raises *)

CallbackPool ==
    { StepDict("str", "normalize", EmptyDict, "true"),
      StepDict("str", "grayscale", PAbsent, "absent"),
      StepDict("str", "denoise", PDict("nlm", StrStrength), "true") }

CallbackInputs ==
    { [kind |-> "list", items |-> s] : s \in SeqsUpTo(CallbackPool, MaxSteps) }

\* str(e) of the exception the caller's callback raises: a message, or the
\* empty string of an exception raised without arguments.
CallbackErrors == {"on_progress failed", ""}

\* What the callback raises: an instance of a class derived from Exception, or
\* of one derived from BaseException alone (KeyboardInterrupt, SystemExit,
\* GeneratorExit, asyncio.CancelledError).
ExceptionClasses == {"Exception", "BaseException"}

\* fn.raise_at: the call of on_progress that raises (0: none does);
\* fn.raised_in: the index of the step that was running when it raised;
\* fn.exc: the class of what it raises; fn.msg: its str(e).
InitCallback ==
    /\ steps \in CallbackInputs
    /\ image \in Images
    /\ continue_on_error \in BOOLEAN
    /\ preview_mode = FALSE
    /\ pc = "idle"
    /\ active_steps = << >>
    /\ i = 0
    /\ current_image = image
    /\ errors = << >>
    /\ op_run = NoOp
    /\ j = 0
    /\ agg = NewAggregator
    /\ result = NoResult
    /\ reported = << >>
    /\ calls = << >>
    /\ vres = NotValidated
    /\ now = 1
    /\ fn \in { [raise_at |-> n, raised_in |-> -1, exc |-> e, msg |-> m] :
                   n \in 0..MaxRaiseAt, e \in ExceptionClasses, m \in CallbackErrors }
    /\ pair = << >>

CaughtByExecuteNever(exc) == FALSE

\* The try block of execute (lines 138-146) encloses op_func and whatever
\* op_func calls, the progress callback included; its handler is
\* `except Exception`, which an exception that derives from BaseException
\* alone passes by.
CaughtByExecute(exc) == exc = "Exception"

\* progress(p) when the caller's callback returns.
OnProgressReturns ==
    /\ fn.raise_at # Len(reported) + 1
    /\ OpProgress

\* progress(p) when the caller's callback raises: update_progress has run
\* (line 183), then the exception travels up through the operation.
OnProgressRaises ==
    /\ pc = "op"
    /\ j < Len(op_run.prog)
    /\ fn.raise_at = Len(reported) + 1
    /\ fn' = [fn EXCEPT !.raised_in = i]
    /\ LET info == ProgressInfo(StepName(active_steps[i + 1]), i, Len(active_steps),
                                op_run.prog[j + 1])
       IN  /\ reported' = Append(reported, info.percent)
           /\ IF CaughtByExecute(fn.exc)
              THEN StepFailed(AggUpdateProgress(agg, info), fn.msg)
              ELSE /\ pc' = "raised"
                   /\ agg' = AggUpdateProgress(agg, info)
                   /\ UNCHANGED <<i, errors, result>>
    /\ now' = now + 1
    /\ UNCHANGED <<steps, image, continue_on_error, preview_mode, active_steps,
                   current_image, op_run, j, calls, vres, pair>>

NextCallback ==
    \/ Execute
    \/ StepStart
    \/ OnProgressReturns
    \/ OnProgressRaises
    \/ OpReturn
    \/ OpRaise
    \/ Finish

SpecCallback == InitCallback /\ [][NextCallback]_vars

\* The call of the operation of step number n.
CallOfStep(n) == CHOOSE m \in 1..Len(calls) : calls[m].index = n

\* The exception the callback raised became the failure of the step that was
\* running: an error entry, a failed step record, the image as it entered the
\* step, the continue_on_error policy applied, and execute did not raise.
CallbackFaultIsStepFailure ==
    /\ pc # "raised"
    /\ \E k \in 1..Len(errors) :
          /\ errors[k].index = fn.raised_in
          /\ errors[k].error = fn.msg
          /\ errors[k].step = agg.steps[fn.raised_in + 1].step
    /\ agg.steps[fn.raised_in + 1].success = "false"
    /\ agg.steps[fn.raised_in + 1].error = ErrorStr(fn.msg)
    /\ ~continue_on_error =>
          /\ Returned
          /\ ~result.success
          /\ Len(agg.steps) = fn.raised_in + 1
          /\ result.image = calls[CallOfStep(fn.raised_in)].image
    /\ (continue_on_error /\ Returned) =>
          /\ ~result.success
          /\ Len(agg.steps) = Len(EnabledSteps)
          /\ ImageAfterCall(CallOfStep(fn.raised_in)) =
                calls[CallOfStep(fn.raised_in)].image

\* C29: an exception raised by on_progress while an operation reports progress
\* becomes the failure of the running step: an error entry is appended, the
\* step record has success false, the image stays as it entered the step, the
\* continue_on_error policy applies, and execute does not raise.
C29_CallbackFaultIsStepFailure ==
    fn.raised_in >= 0 => CallbackFaultIsStepFailure

\* C29 for what `except Exception` catches: an exception derived from Exception
\* becomes the failure of the running step; one derived from BaseException
\* alone leaves execute, with no result, no error entry, the record of the
\* running step in progress and finish not called.
C29_ExceptionIsStepFailureBaseExceptionEscapes ==
    /\ (fn.raised_in >= 0 /\ fn.exc = "Exception") => CallbackFaultIsStepFailure
    /\ (fn.raised_in >= 0 /\ fn.exc = "BaseException") =>
          /\ pc = "raised"
          /\ result = NoResult
          /\ Len(agg.steps) = fn.raised_in + 1
          /\ InProgress(agg.steps[fn.raised_in + 1])
          /\ agg.end_time = -1
          /\ \A k \in 1..Len(errors) : errors[k].index # fn.raised_in

\* A KeyboardInterrupt raised by the callback in the second step leaves execute.
C29_BaseExceptionEscaped ==
    /\ pc = "raised"
    /\ fn.exc = "BaseException"
    /\ fn.raised_in = 1
    /\ agg.steps[1].success = "true"
    /\ InProgress(agg.steps[2])

C29_Witness ==
    /\ Returned
    /\ continue_on_error
    /\ fn.exc = "Exception"
    /\ fn.raised_in = 1
    /\ Len(agg.steps) = 3
    /\ agg.steps[1].success = "true"
    /\ agg.steps[2].success = "false"
    /\ agg.steps[3].success = "true"
    /\ Len(result.errors) = 1
    /\ result.image # image

-----------------------------------------------------------------------------
(* main.py: RateLimiter and the OCR endpoint *)

\* rate_limiter = RateLimiter(min_interval=12)
min_interval == 12

\* RateLimiter.__init__: last_request_time is None (-1).
NewRateLimiter == [last_request_time |-> -1]

\* RateLimiter.can_proceed at time t: the first component of its result.
can_proceed(rl, t) ==
    IF rl.last_request_time = -1 THEN TRUE
    ELSE t - rl.last_request_time >= min_interval

\* RateLimiter.record_request at time t
record_request(rl, t) == [rl EXCEPT !.last_request_time = t]

\* fn.limiter is the global rate_limiter, fn.clock is time.time() in seconds,
\* fn.req the requests being handled: where each one is in ocr_page and when it
\* passed can_proceed.
InitLimiter ==
    /\ NoInvocation
    /\ pair = << >>
    /\ fn = [limiter |-> NewRateLimiter, clock |-> 0,
             req |-> [r \in 1..MaxRequests |-> [at |-> "arrived", passed_at |-> -1]]]

Tick ==
    /\ fn.clock < MaxClock
    /\ fn' = [fn EXCEPT !.clock = @ + 1]
    /\ UNCHANGED <<execvars, pair>>

\* ocr_page, lines 414-424: the rate-limit check.
Admit(r) ==
    /\ fn.req[r].at = "arrived"
    /\ can_proceed(fn.limiter, fn.clock)
    /\ fn' = [fn EXCEPT !.req[r] = [at |-> "reading", passed_at |-> fn.clock]]
    /\ UNCHANGED <<execvars, pair>>

Reject(r) ==
    /\ fn.req[r].at = "arrived"
    /\ ~can_proceed(fn.limiter, fn.clock)
    /\ fn' = [fn EXCEPT !.req[r].at = "rejected"]
    /\ UNCHANGED <<execvars, pair>>

\* ocr_page, lines 444-455: after `await image.read()` the remote call returns
\* and the request is recorded.
RecognitionSucceeds(r) ==
    /\ fn.req[r].at = "reading"
    /\ fn' = [fn EXCEPT !.req[r].at = "answered",
                        !.limiter = record_request(fn.limiter, fn.clock)]
    /\ UNCHANGED <<execvars, pair>>

\* ocr_page, lines 465-483: the remote call raises; nothing is recorded.
RecognitionFails(r) ==
    /\ fn.req[r].at = "reading"
    /\ fn' = [fn EXCEPT !.req[r].at = "failed"]
    /\ UNCHANGED <<execvars, pair>>

NextLimiter ==
    \/ Tick
    \/ \E r \in 1..MaxRequests : Admit(r)
    \/ \E r \in 1..MaxRequests : Reject(r)
    \/ \E r \in 1..MaxRequests : RecognitionSucceeds(r)
    \/ \E r \in 1..MaxRequests : RecognitionFails(r)

SpecLimiter == InitLimiter /\ [][NextLimiter]_vars

\* C30: under any interleaving, once a request has passed can_proceed no other
\* request passes it until min_interval has elapsed, also when the other
\* arrives before record_request or after a failed call.
C30_OneAdmissionPerInterval ==
    \A r1, r2 \in 1..MaxRequests :
        (r1 # r2 /\ fn.req[r1].passed_at >= 0 /\ fn.req[r2].passed_at >= 0) =>
            Abs(fn.req[r1].passed_at - fn.req[r2].passed_at) >= min_interval

\* What the limiter does enforce: a request passes can_proceed only when no
\* request has been recorded yet or min_interval has elapsed since the last
\* record_request.
C30_AdmissionAfterRecordedInterval ==
    [][\A r \in 1..MaxRequests :
          (fn.req[r].passed_at = -1 /\ fn'.req[r].passed_at >= 0) =>
              \/ fn.limiter.last_request_time = -1
              \/ fn'.req[r].passed_at - fn.limiter.last_request_time >= min_interval]_vars

=============================================================================
